---------------------------- MODULE Spec2Model ----------------------------
(***************************************************************************)
(* Safety index subsystem of the SoloMate backend                          *)
(* (src/app/api/routes/safety.py, weights from src/app/core/config.py).    *)
(*                                                                         *)
(* Numbers.  The code computes with Python floats.  Here every float is an *)
(* exact rational <<n, d>> with d > 0, kept in lowest terms, so that       *)
(* 0.4 * 0.8 is 8/25 and a weighted average is the exact quotient.         *)
(* round(x * 10, 2) is modelled by its result in hundredths (4.96 is 496), *)
(* rounding half to even as Python does.  Binary rounding error of the     *)
(* doubles (about 1e-16) is modelled where a comparison in the code sits   *)
(* exactly on it (news_deviates) and not elsewhere.                        *)
(*                                                                         *)
(* Time.  datetime values are whole hours since an epoch; a timedelta's    *)
(* .days is the floor of the difference divided by 24 hours.               *)
(*                                                                         *)
(* Places.  A latitude or longitude is an integer number of 1e-4 degrees.  *)
(***************************************************************************)
EXTENDS Integers, Sequences, FiniteSets, TLC

VARIABLES
    now,          \* datetime.utcnow(), in hours
    ticks,        \* how many times the clock has been advanced
    reports,      \* table safetyreport: a sequence of rows, the id is the index
    cities,       \* table city: id -> row (latitude, longitude, safetyIndex)
    tokens,       \* table user: id -> tokens
    activeUsers,  \* city id -> lastActiveAt of each user with a quest there
    proofs,       \* table locationproof
    articles,     \* table newsarticle
    impacts,      \* table newssafetyimpact
    resp,         \* the outcome of the last request
    inflight,     \* the requests in progress, by worker: position and locals
    quests,       \* table quest: id -> row
    questprogress, \* table questprogress: <<user id, quest id>> -> row or None
    users,        \* table user: id -> level and totalXP
    call          \* the last direct call of a calculator function

vars == <<now, ticks, quests, questprogress, users, reports, cities, tokens,
          activeUsers, proofs, articles, impacts, resp, inflight, call>>

dbVars == <<now, ticks, quests, questprogress, users, reports, cities, tokens,
            activeUsers, proofs, articles, impacts, resp, inflight>>

tables == <<now, ticks, quests, questprogress, users, reports, cities, tokens,
            activeUsers, proofs, articles, impacts>>

-----------------------------------------------------------------------------
(* Optional values: Python's None and a present value.                     *)

None == <<>>

Some(v) == <<v>>

Val(o) == o[1]

(* Python truthiness of an optional number: None and 0 are false.          *)
Truthy(o) == o # None /\ Val(o) # 0

-----------------------------------------------------------------------------
(* Exact rationals standing for the floats of the code.                    *)

Abs(x) == IF x < 0 THEN -x ELSE x

RECURSIVE Gcd(_, _)
Gcd(a, b) == IF b = 0 THEN a ELSE Gcd(b, a % b)

Rat(n, d) ==
    LET g == Gcd(Abs(n), Abs(d))
        s == IF d < 0 THEN -1 ELSE 1
    IN  <<(s * n) \div g, (s * d) \div g>>

RInt(k) == <<k, 1>>

RAdd(x, y) == Rat(x[1] * y[2] + y[1] * x[2], x[2] * y[2])

RSub(x, y) == Rat(x[1] * y[2] - y[1] * x[2], x[2] * y[2])

RMul(x, y) == Rat(x[1] * y[1], x[2] * y[2])

RDiv(x, y) == Rat(x[1] * y[2], x[2] * y[1])

RLe(x, y) == x[1] * y[2] <= y[1] * x[2]

RLt(x, y) == x[1] * y[2] < y[1] * x[2]

RMax(x, y) == IF RLt(x, y) THEN y ELSE x

RMin(x, y) == IF RLt(y, x) THEN y ELSE x

RAbs(x) == <<Abs(x[1]), x[2]>>

(* round(x): the nearest integer, a tie going to the even one.             *)
RoundHalfEven(x) ==
    LET q == x[1] \div x[2]
        r == x[1] % x[2]
    IN  IF 2 * r < x[2] THEN q
        ELSE IF 2 * r > x[2] THEN q + 1
        ELSE IF q % 2 = 0 THEN q ELSE q + 1

(* round(x, 2), in hundredths.                                             *)
Round2(x) == RoundHalfEven(RMul(x, RInt(100)))

(* round(x, 3), in thousandths.                                            *)
Round3(x) == RoundHalfEven(RMul(x, RInt(1000)))

-----------------------------------------------------------------------------
(* Configuration (Settings) and the schema's enum.                         *)

weight_reports_as_time == Rat(3, 10)

SAFETY_INDEX_WEIGHT_REPORTS == Rat(4, 10)

SAFETY_INDEX_WEIGHT_TIME == Rat(3, 10)

SAFETY_INDEX_WEIGHT_DENSITY == Rat(3, 10)

positive_types ==
    {"WELL_LIT", "POLICE_PRESENCE", "CROWDED_AREA", "EMERGENCY_SERVICES",
     "SAFE_TRANSPORT"}

negative_types ==
    {"UNSAFE_AREA", "UNSAFE_TRANSPORT", "TOURIST_SCAM", "PICKPOCKET_RISK"}

SafetyReportType == positive_types \cup negative_types \cup {"OTHER"}

HoursPerDay == 24

(* timedelta.days of (a - b), both in hours.                               *)
DaysBetween(a, b) == (a - b) \div HoursPerDay

-----------------------------------------------------------------------------
(* SafetyIndexCalculator: the three pure factors.                          *)

time_factor_strict_night(hour) ==
    IF 22 < hour \/ hour <= 6 THEN Rat(6, 10)
    ELSE IF 8 <= hour /\ hour <= 18 THEN RInt(1)
    ELSE Rat(8, 10)

calculate_time_factor(hour) ==
    IF 22 <= hour \/ hour <= 6 THEN Rat(6, 10)
    ELSE IF 8 <= hour /\ hour <= 18 THEN RInt(1)
    ELSE Rat(8, 10)

density_factor_strict(active_users_count) ==
    IF active_users_count > 20 THEN RInt(1)
    ELSE IF active_users_count >= 10 THEN Rat(8, 10)
    ELSE IF active_users_count >= 5 THEN Rat(6, 10)
    ELSE Rat(4, 10)

calculate_density_factor(active_users_count) ==
    IF active_users_count >= 20 THEN RInt(1)
    ELSE IF active_users_count >= 10 THEN Rat(8, 10)
    ELSE IF active_users_count >= 5 THEN Rat(6, 10)
    ELSE Rat(4, 10)

(* One pass of the loop of calculate_reports_factor: the report's weight   *)
(* max(0.1, 1 - days_old / 30) and its score.                              *)
report_days_old(report, utcnow) == DaysBetween(utcnow, report.reported_at)

report_weight_no_floor(report, utcnow) ==
    RSub(RInt(1), Rat(report_days_old(report, utcnow), 30))

report_weight(report, utcnow) ==
    RMax(Rat(1, 10), RSub(RInt(1), Rat(report_days_old(report, utcnow), 30)))

report_score_all_positive(report) ==
    IF report.type \in positive_types \cup {"OTHER"}
    THEN Rat(report.severity, 10)
    ELSE RSub(RInt(1), Rat(report.severity, 10))

report_score(report) ==
    IF report.type \in positive_types THEN Rat(report.severity, 10)
    ELSE IF report.type \in negative_types
         THEN RSub(RInt(1), Rat(report.severity, 10))
         ELSE Rat(5, 10)

RECURSIVE weighted_score(_, _)
weighted_score(rs, utcnow) ==
    IF rs = <<>> THEN RInt(0)
    ELSE RAdd(weighted_score(Tail(rs), utcnow),
              RMul(report_score(Head(rs)), report_weight(Head(rs), utcnow)))

RECURSIVE total_weight(_, _)
total_weight(rs, utcnow) ==
    IF rs = <<>> THEN RInt(0)
    ELSE RAdd(total_weight(Tail(rs), utcnow), report_weight(Head(rs), utcnow))

(* Which return statement calculate_reports_factor leaves by.              *)
reports_factor_path(rs, utcnow) ==
    IF rs = <<>> THEN "empty"
    ELSE IF RLt(RInt(0), total_weight(rs, utcnow)) THEN "average"
    ELSE "fallback"

reports_factor_unweighted(rs, utcnow) ==
    IF rs = <<>> THEN Rat(5, 10)
    ELSE RDiv(weighted_score(rs, utcnow), RInt(Len(rs)))

calculate_reports_factor(rs, utcnow) ==
    IF rs = <<>> THEN Rat(5, 10)
    ELSE IF RLt(RInt(0), total_weight(rs, utcnow))
         THEN RDiv(weighted_score(rs, utcnow), total_weight(rs, utcnow))
         ELSE Rat(5, 10)

-----------------------------------------------------------------------------
(* geopy's geodesic distance, in metres.  The library is not part of the   *)
(* repository: the model takes a metric on the integer grid, about 11 m a  *)
(* unit of 1e-4 degree along each axis.                                    *)

MetersPerUnit == 11

geodesic_m(lat1, lon1, lat2, lon2) ==
    MetersPerUnit * (Abs(lat1 - lat2) + Abs(lon1 - lon2))

-----------------------------------------------------------------------------
(* calculate_news_factor.  A result is [raised, value]: raised says the    *)
(* call left by an exception, which the caller then propagates.            *)

Returned(v) == [raised |-> FALSE, value |-> v]

Raised == [raised |-> TRUE, value |-> RInt(0)]

SevenDays == 7

DefaultNewsRadiusKm == 50

(* db.newsarticle.find_many(where = ...), lines 101-117.                   *)
news_articles_query(city_id, utcnow) ==
    {a \in articles :
        /\ \/ a.cityId = city_id
           \/ (a.latitude # None /\ a.longitude # None
               /\ a.locationRadius # None)
        /\ a.processedAt >= utcnow - SevenDays * HoursPerDay
        /\ a.isRelevant
        /\ a.isProcessed}

(* The geographic filter, lines 126-137.                                   *)
article_is_relevant(a, city_id, latitude, longitude) ==
    IF Truthy(a.latitude) /\ Truthy(a.longitude)
    THEN LET max_distance == IF Truthy(a.locationRadius)
                             THEN Val(a.locationRadius)
                             ELSE DefaultNewsRadiusKm
         IN  geodesic_m(latitude, longitude, Val(a.latitude), Val(a.longitude))
                 <= 1000 * max_distance
    ELSE a.cityId = city_id

(* db.newssafetyimpact.find_many(where = ...), lines 148-153.              *)
article_impacts(a) ==
    {i \in impacts : i.newsArticleId = a.id /\ i.isActive}

RECURSIVE impacts_total_impact(_)
impacts_total_impact(is) ==
    IF is = {} THEN RInt(0)
    ELSE LET i == CHOOSE x \in is : TRUE
         IN  RAdd(impacts_total_impact(is \ {i}),
                  RMul(i.impactFactor, RMul(i.weightFactor, i.decayFactor)))

RECURSIVE impacts_total_weight(_)
impacts_total_weight(is) ==
    IF is = {} THEN RInt(0)
    ELSE LET i == CHOOSE x \in is : TRUE
         IN  RAdd(impacts_total_weight(is \ {i}),
                  RMul(i.weightFactor, i.decayFactor))

article_safety_factor_no_neutral_band(a) ==
    LET threat_level == Val(a.threatLevel)
    IN  RAdd(RAdd(RInt(1), Rat(3 - threat_level, 10)),
             RMul(a.sentimentPolarity, Rat(5, 100)))

(* The fallback from the article itself, lines 162-181.                    *)
article_safety_factor(a) ==
    LET threat_level == Val(a.threatLevel)
        base == IF threat_level <= 3
                THEN RAdd(RInt(1), Rat(3 - threat_level, 10))
                ELSE IF threat_level <= 6 THEN RInt(1)
                ELSE RSub(RInt(1), Rat(threat_level - 6, 10))
    IN  RAdd(base, RMul(a.sentimentPolarity, Rat(5, 100)))

article_weight(a, utcnow) ==
    LET days_old == DaysBetween(utcnow, a.processedAt)
        recency_weight == RMax(Rat(1, 10), RSub(RInt(1), Rat(days_old, 7)))
    IN  RMul(a.confidence, recency_weight)

(* An article with no active impact and no threat level: the comparison    *)
(* threat_level <= 3 on None raises TypeError.                             *)
article_raises(a) == article_impacts(a) = {} /\ a.threatLevel = None

article_total_impact_inline_first(a, utcnow) ==
    IF a.threatLevel # None
    THEN RMul(article_safety_factor(a), article_weight(a, utcnow))
    ELSE impacts_total_impact(article_impacts(a))

article_total_impact(a, utcnow) ==
    IF article_impacts(a) # {}
    THEN impacts_total_impact(article_impacts(a))
    ELSE RMul(article_safety_factor(a), article_weight(a, utcnow))

article_total_weight(a, utcnow) ==
    IF article_impacts(a) # {}
    THEN impacts_total_weight(article_impacts(a))
    ELSE article_weight(a, utcnow)

RECURSIVE news_total_impact(_, _)
news_total_impact(as, utcnow) ==
    IF as = {} THEN RInt(0)
    ELSE LET a == CHOOSE x \in as : TRUE
         IN  RAdd(news_total_impact(as \ {a}, utcnow),
                  article_total_impact(a, utcnow))

RECURSIVE news_total_weight(_, _)
news_total_weight(as, utcnow) ==
    IF as = {} THEN RInt(0)
    ELSE LET a == CHOOSE x \in as : TRUE
         IN  RAdd(news_total_weight(as \ {a}, utcnow),
                  article_total_weight(a, utcnow))

relevant_articles(city_id, latitude, longitude, utcnow) ==
    {a \in news_articles_query(city_id, utcnow) :
        article_is_relevant(a, city_id, latitude, longitude)}

(* Whether the body of the try block raises.  fail names the lookup that   *)
(* the database fails in this request ("none": no lookup fails).           *)
news_factor_raises(city_id, latitude, longitude, utcnow, fail) ==
    \/ fail = "news_articles"
    \/ /\ relevant_articles(city_id, latitude, longitude, utcnow) # {}
       /\ \/ fail = "news_impacts"
          \/ \E a \in relevant_articles(city_id, latitude, longitude, utcnow) :
                 article_raises(a)

news_factor_half_when_empty(city_id, latitude, longitude, utcnow) ==
    LET rel == relevant_articles(city_id, latitude, longitude, utcnow)
        tw  == news_total_weight(rel, utcnow)
    IN  IF rel = {} THEN Rat(1, 2)
        ELSE IF RLt(RInt(0), tw)
             THEN RMax(Rat(3, 10),
                       RMin(Rat(15, 10), RDiv(news_total_impact(rel, utcnow), tw)))
             ELSE Rat(1, 2)

news_factor_unclamped(city_id, latitude, longitude, utcnow) ==
    LET rel == relevant_articles(city_id, latitude, longitude, utcnow)
        tw  == news_total_weight(rel, utcnow)
    IN  IF rel = {} THEN RInt(1)
        ELSE IF RLt(RInt(0), tw)
             THEN RDiv(news_total_impact(rel, utcnow), tw)
             ELSE RInt(1)

(* The try block when nothing raises, lines 99-192.                        *)
news_factor_body(city_id, latitude, longitude, utcnow) ==
    LET rel == relevant_articles(city_id, latitude, longitude, utcnow)
        tw  == news_total_weight(rel, utcnow)
    IN  IF rel = {} THEN RInt(1)
        ELSE IF RLt(RInt(0), tw)
             THEN RMax(Rat(3, 10),
                       RMin(Rat(15, 10), RDiv(news_total_impact(rel, utcnow), tw)))
             ELSE RInt(1)

news_factor_uncaught(city_id, latitude, longitude, utcnow, fail) ==
    IF news_factor_raises(city_id, latitude, longitude, utcnow, fail)
    THEN Raised
    ELSE Returned(news_factor_body(city_id, latitude, longitude, utcnow))

calculate_news_factor(city_id, latitude, longitude, utcnow, fail) ==
    IF news_factor_raises(city_id, latitude, longitude, utcnow, fail)
    THEN Returned(RInt(1))
    ELSE Returned(news_factor_body(city_id, latitude, longitude, utcnow))

-----------------------------------------------------------------------------
(* The weighted combination, lines 250-272 (city) and 342-362 (area):      *)
(* the score in hundredths.                                                *)

Clamp01(x) == RMax(RInt(0), RMin(RInt(1), x))

(* abs(news_factor - 1.0) > 0.1 as the doubles decide it.  Away from the   *)
(* two ties the exact values decide.  At the ties the rounding of the      *)
(* literals decides: the double 1.1 is 1.1 + 8.9e-17 and the double 0.1 is *)
(* 0.1 + 5.6e-18, so 1.1 - 1.0 > 0.1 is true; the double 0.9 is            *)
(* 0.9 + 2.2e-17, so abs(0.9 - 1.0) > 0.1 is false.                        *)
(* abs(news_factor - 1.0) > 0.1, line 263, as doubles decide it: the       *)
(* difference 1.1 - 1.0 is 0.10000000000000009, above the double 0.1, and  *)
(* 0.9 - 1.0 is -0.09999999999999998, below it; away from these two ties   *)
(* the doubles and the rationals agree.                                    *)
news_deviates(news_factor) ==
    IF RAbs(RSub(news_factor, RInt(1))) = Rat(1, 10)
    THEN RLt(RInt(1), news_factor)
    ELSE RLt(Rat(1, 10), RAbs(RSub(news_factor, RInt(1))))

city_index_raw_nudge_down(reports_factor, time_factor, density_factor, news_factor) ==
    LET base == RMul(RAdd(RAdd(RMul(reports_factor, Rat(32, 100)),
                               RMul(time_factor, Rat(24, 100))),
                          RMul(density_factor, Rat(24, 100))),
                     news_factor)
    IN  IF news_deviates(news_factor)
        THEN RSub(base, RMul(RSub(news_factor, RInt(1)), Rat(2, 10)))
        ELSE base

(* safety_index before the clamp, lines 252-266.                           *)
city_index_raw(reports_factor, time_factor, density_factor, news_factor) ==
    LET reports_weight == RMul(SAFETY_INDEX_WEIGHT_REPORTS, Rat(8, 10))
        time_weight    == RMul(SAFETY_INDEX_WEIGHT_TIME, Rat(8, 10))
        density_weight == RMul(SAFETY_INDEX_WEIGHT_DENSITY, Rat(8, 10))
        news_weight    == Rat(2, 10)
        base == RMul(RAdd(RAdd(RMul(reports_factor, reports_weight),
                               RMul(time_factor, time_weight)),
                          RMul(density_factor, density_weight)),
                     news_factor)
    IN  IF news_deviates(news_factor)
        THEN RAdd(base, RMul(RSub(news_factor, RInt(1)), news_weight))
        ELSE base

(* safety_index before the clamp, lines 343-356.                           *)
area_index_raw(reports_factor, time_factor, density_factor, news_factor) ==
    LET reports_weight == RMul(SAFETY_INDEX_WEIGHT_REPORTS, Rat(8, 10))
        time_weight    == RMul(SAFETY_INDEX_WEIGHT_TIME, Rat(8, 10))
        density_weight == RMul(SAFETY_INDEX_WEIGHT_DENSITY, Rat(8, 10))
        base == RMul(RAdd(RAdd(RMul(reports_factor, reports_weight),
                               RMul(time_factor, time_weight)),
                          RMul(density_factor, density_weight)),
                     news_factor)
    IN  IF news_deviates(news_factor)
        THEN RAdd(base, RMul(RSub(news_factor, RInt(1)), Rat(2, 10)))
        ELSE base

city_index_unclamped(reports_factor, time_factor, density_factor, news_factor) ==
    Round2(RMul(city_index_raw(reports_factor, time_factor, density_factor,
                               news_factor),
                RInt(10)))

city_index_compose(reports_factor, time_factor, density_factor, news_factor) ==
    Round2(RMul(Clamp01(city_index_raw(reports_factor, time_factor,
                                       density_factor, news_factor)),
                RInt(10)))

area_index_compose(reports_factor, time_factor, density_factor, news_factor) ==
    Round2(RMul(Clamp01(area_index_raw(reports_factor, time_factor,
                                       density_factor, news_factor)),
                RInt(10)))

(* calculate_city_safety_index from the factors' inputs on, lines 225-272  *)
(* without the lookups: reports_data, the user count, the hour and the     *)
(* news factor are given.                                                  *)
city_safety_index(reports_data, active_users, utcnow, news_factor) ==
    city_index_compose(calculate_reports_factor(reports_data, utcnow),
                       calculate_time_factor(utcnow % HoursPerDay),
                       calculate_density_factor(active_users),
                       news_factor)

(* safety_index before the clamp, from the same inputs.                    *)
city_safety_index_raw(reports_data, active_users, utcnow, news_factor) ==
    city_index_raw(calculate_reports_factor(reports_data, utcnow),
                   calculate_time_factor(utcnow % HoursPerDay),
                   calculate_density_factor(active_users),
                   news_factor)

area_safety_index_raw(area_reports, area_activity, utcnow, news_factor) ==
    area_index_raw(calculate_reports_factor(area_reports, utcnow),
                   calculate_time_factor(utcnow % HoursPerDay),
                   calculate_density_factor(area_activity),
                   news_factor)

safety_level_caution_from_three(safety_index) ==
    IF safety_index >= 800 THEN "Very Safe"
    ELSE IF safety_index >= 600 THEN "Safe"
    ELSE IF safety_index >= 400 THEN "Moderate"
    ELSE IF safety_index >= 300 THEN "Caution"
    ELSE "High Risk"

(* get_safety_level, lines 817-828, on a score in hundredths.              *)
get_safety_level(safety_index) ==
    IF safety_index >= 800 THEN "Very Safe"
    ELSE IF safety_index >= 600 THEN "Safe"
    ELSE IF safety_index >= 400 THEN "Moderate"
    ELSE IF safety_index >= 200 THEN "Caution"
    ELSE "High Risk"

area_safety_index(area_reports, area_activity, utcnow, news_factor) ==
    area_index_compose(calculate_reports_factor(area_reports, utcnow),
                       calculate_time_factor(utcnow % HoursPerDay),
                       calculate_density_factor(area_activity),
                       news_factor)

-----------------------------------------------------------------------------
(* The two composers with their lookups.  rs is the safetyreport table the *)
(* call reads, utcnow the clock, fail the lookup the database fails in     *)
(* this call ("none": no lookup fails).  A result is [raised, ret, ...]:   *)
(* an exception raised outside calculate_news_factor's try block leaves    *)
(* the composer.                                                           *)

ThirtyDays == 30

FailPoints ==
    {"none", "reports", "activity", "city", "news_articles", "news_impacts"}

(* The failures drawn for a whole request.                                 *)
RequestFailPoints == {"none", "reports", "news_articles"}

RaisedIndex ==
    [raised |-> TRUE, ret |-> 0, reports_factor |-> RInt(0),
     time_factor |-> RInt(0), density_factor |-> RInt(0),
     news_factor |-> RInt(0), news_failed |-> FALSE, total_reports |-> 0]

city_reports_any_status(rs, city_id, utcnow) ==
    SelectSeq(rs, LAMBDA r :
        /\ r.cityId = city_id
        /\ r.reportedAt >= utcnow - ThirtyDays * HoursPerDay)

city_reports_active_only(rs, city_id, utcnow) ==
    SelectSeq(rs, LAMBDA r :
        /\ r.cityId = city_id
        /\ r.reportedAt >= utcnow - ThirtyDays * HoursPerDay
        /\ r.isVerified
        /\ r.isActive)

(* db.safetyreport.find_many(where = ...), lines 204-210.                  *)
city_reports(rs, city_id, utcnow) ==
    SelectSeq(rs, LAMBDA r :
        /\ r.cityId = city_id
        /\ r.reportedAt >= utcnow - ThirtyDays * HoursPerDay
        /\ r.isVerified)

(* reports_data, lines 231-238.                                            *)
reports_data(rows) ==
    [i \in 1..Len(rows) |->
        [type |-> rows[i].type, severity |-> rows[i].severity,
         reported_at |-> rows[i].reportedAt]]

active_users_this_hour(city_id, utcnow) ==
    IF city_id \in DOMAIN activeUsers
    THEN Len(SelectSeq(activeUsers[city_id],
                       LAMBDA lastActiveAt : lastActiveAt >= utcnow))
    ELSE 0

(* db.user.count(where = ...), lines 214-223.                              *)
active_users(city_id, utcnow) ==
    IF city_id \in DOMAIN activeUsers
    THEN Len(SelectSeq(activeUsers[city_id],
                       LAMBDA lastActiveAt : lastActiveAt >= utcnow - HoursPerDay))
    ELSE 0

calculate_city_safety_index(rs, city_id, utcnow, fail) ==
    IF fail \in {"reports", "activity", "city"} THEN RaisedIndex
    ELSE
    LET rows == city_reports(rs, city_id, utcnow)
        time_factor == calculate_time_factor(utcnow % HoursPerDay)
        density_factor == calculate_density_factor(active_users(city_id, utcnow))
        reports_factor == calculate_reports_factor(reports_data(rows), utcnow)
        found == city_id \in DOMAIN cities
        news == IF found
                THEN calculate_news_factor(city_id, cities[city_id].latitude,
                         cities[city_id].longitude, utcnow, fail)
                ELSE Returned(RInt(1))
    IN  IF news.raised THEN [RaisedIndex EXCEPT !.news_failed = TRUE]
        ELSE [raised |-> FALSE,
              ret |-> city_index_compose(reports_factor, time_factor,
                          density_factor, news.value),
              reports_factor |-> reports_factor,
              time_factor |-> time_factor,
              density_factor |-> density_factor,
              news_factor |-> news.value,
              news_failed |-> found /\ news_factor_raises(city_id,
                                  cities[city_id].latitude,
                                  cities[city_id].longitude, utcnow, fail),
              total_reports |-> Len(rows)]

(* db.safetyreport.find_many and the distance filter, lines 282-304.       *)
area_reports(rs, latitude, longitude, radius_km, utcnow) ==
    SelectSeq(rs, LAMBDA r :
        /\ r.reportedAt >= utcnow - ThirtyDays * HoursPerDay
        /\ r.isVerified
        /\ geodesic_m(latitude, longitude, r.latitude, r.longitude)
               <= radius_km * 1000)

(* db.locationproof.find_many and the distance filter, lines 307-321.      *)
area_activity(latitude, longitude, radius_km, utcnow) ==
    Len(SelectSeq(proofs, LAMBDA p :
        /\ p.timestamp >= utcnow - HoursPerDay
        /\ p.isVerified
        /\ geodesic_m(latitude, longitude, p.latitude, p.longitude)
               <= radius_km * 1000))

(* db.city.find_first(order = {"latitude": "asc"}), lines 331-333.         *)
closest_city ==
    CHOOSE c \in DOMAIN cities :
        \A d \in DOMAIN cities : cities[c].latitude <= cities[d].latitude

calculate_area_safety_index(rs, latitude, longitude, radius_km, utcnow, fail) ==
    IF fail \in {"reports", "activity", "city"} THEN RaisedIndex
    ELSE
    LET rows == area_reports(rs, latitude, longitude, radius_km, utcnow)
        time_factor == calculate_time_factor(utcnow % HoursPerDay)
        density_factor ==
            calculate_density_factor(
                area_activity(latitude, longitude, radius_km, utcnow))
        reports_factor == calculate_reports_factor(reports_data(rows), utcnow)
        found == DOMAIN cities # {}
        news == IF found
                THEN calculate_news_factor(closest_city, latitude, longitude,
                                           utcnow, fail)
                ELSE Returned(RInt(1))
    IN  IF news.raised THEN [RaisedIndex EXCEPT !.news_failed = TRUE]
        ELSE [raised |-> FALSE,
              ret |-> area_index_compose(reports_factor, time_factor,
                          density_factor, news.value),
              reports_factor |-> reports_factor,
              time_factor |-> time_factor,
              density_factor |-> density_factor,
              news_factor |-> news.value,
              news_failed |-> found /\ news_factor_raises(closest_city,
                                  latitude, longitude, utcnow, fail),
              total_reports |-> Len(rows)]

-----------------------------------------------------------------------------
(* The database when the safety routes start serving: two cities and no    *)
(* safety report; the tables other components own (users' activity,        *)
(* location proofs, news) hold one of a few contents.                      *)

CityIds == {"c1", "c2"}

(* News rows the pipeline may store at time t, with their impacts.         *)
ArticlePool(t) ==
    {[id |-> 1, cityId |-> "c1", latitude |-> None, longitude |-> None,
      locationRadius |-> None, threatLevel |-> Some(9),
      sentimentPolarity |-> Rat(-1, 2), confidence |-> RInt(1),
      processedAt |-> t, isRelevant |-> TRUE, isProcessed |-> TRUE],
     [id |-> 2, cityId |-> "c1", latitude |-> None, longitude |-> None,
      locationRadius |-> None, threatLevel |-> None,
      sentimentPolarity |-> RInt(0), confidence |-> RInt(1),
      processedAt |-> t, isRelevant |-> TRUE, isProcessed |-> TRUE]}

ImpactPool(t) ==
    {[id |-> 1, newsArticleId |-> 3, isActive |-> TRUE,
      impactFactor |-> Rat(13, 10), weightFactor |-> RInt(1),
      decayFactor |-> Rat(1, 2), expiresAt |-> t + 14 * HoursPerDay]}

UserIds == {"u1", "mod"}

Idle == [fn |-> "idle"]

(* The workers that handle requests, and a worker with no request.         *)
Workers == {"w1", "w2"}

IdleWorker == [pc |-> "idle"]

NoRequests == [w \in Workers |-> IdleWorker]

NoRequest == [op |-> "none"]

StartHour == 22

(* The quest, questprogress and user tables as the quest requests find     *)
(* them: q1 a single-place quest one user may complete, q2 a quest with    *)
(* the required point p1 and the optional point p2 for level 2, q3 not     *)
(* active, q4 not yet available, q5 no longer available.                   *)
QuestIds == {"q1", "q2", "q3", "q4", "q5"}

QuestPoint(id, lat, lon, optional) ==
    [id |-> id, latitude |-> lat, longitude |-> lon, radius |-> 50,
     isOptional |-> optional]

QuestRow(active, level, from, to, max, xp, tok, points) ==
    [isActive |-> active, requiredLevel |-> level, availableFrom |-> from,
     availableTo |-> to, maxCompletions |-> max, currentCompletions |-> 0,
     latitude |-> 10000, longitude |-> 10000, radius |-> 50,
     xpReward |-> xp, tokenReward |-> tok, questPoints |-> points]

QuestRows(t) ==
    [q \in QuestIds |->
        IF q = "q1" THEN QuestRow(TRUE, 1, None, None, Some(1), 100, 10, {})
        ELSE IF q = "q2"
        THEN QuestRow(TRUE, 2, Some(t - 1), Some(t + 1), None, 250, 25,
                      {QuestPoint("p1", 10010, 10010, FALSE),
                       QuestPoint("p2", 10000, 10000, TRUE)})
        ELSE IF q = "q3" THEN QuestRow(FALSE, 1, None, None, None, 50, 5, {})
        ELSE IF q = "q4"
        THEN QuestRow(TRUE, 1, Some(t + 1), None, None, 50, 5, {})
        ELSE QuestRow(TRUE, 1, None, Some(t - 1), None, 50, 5, {})]

NoProgress == [p \in UserIds \X QuestIds |-> None]

UserRows ==
    [u \in UserIds |-> [level |-> IF u = "u1" THEN 2 ELSE 1, totalXP |-> 0]]

Init ==
    /\ now = StartHour
    /\ ticks = 0
    /\ quests = QuestRows(StartHour)
    /\ questprogress = NoProgress
    /\ users = UserRows
    /\ reports = <<>>
    /\ cities = [c \in CityIds |->
                   [latitude |-> IF c = "c1" THEN 10000 ELSE 20000,
                    longitude |-> IF c = "c1" THEN 10000 ELSE 20000,
                    safetyIndex |-> 0]]
    /\ tokens = [u \in UserIds |-> 0]
    /\ activeUsers = [c \in CityIds |->
                        IF c = "c1" THEN [i \in 1..20 |-> StartHour] ELSE <<>>]
    /\ proofs = [i \in 1..5 |->
                   [latitude |-> 10000, longitude |-> 10000,
                    timestamp |-> StartHour, isVerified |-> TRUE]]
    /\ articles \in {{a} : a \in ArticlePool(StartHour)}
    /\ impacts = {i \in ImpactPool(StartHour) :
                     i.newsArticleId \in {a.id : a \in articles}}
    /\ resp = NoRequest
    /\ inflight = NoRequests
    /\ call = Idle

-----------------------------------------------------------------------------
(* Direct calls of the calculator's functions on inputs drawn from bounded *)
(* sets.  A call records its arguments and what it returned.               *)

MaxLen == 3

MaxIdxLen == 2

MaxActive == 21

CalcEpoch == 2400

SeqsUpTo(S, n) == UNION {[1..k -> S] : k \in 0..n}

AgeHours == {-1, 0, 23, 26 * 24 + 23, 27 * 24, 30 * 24, 60 * 24}

SingleReports(utcnow) ==
    [type : SafetyReportType, severity : 1..10,
     reported_at : {utcnow - a : a \in AgeHours}]

SmallReports(utcnow) ==
    [type : {"WELL_LIT", "UNSAFE_AREA", "OTHER"}, severity : {1, 10},
     reported_at : {utcnow - a : a \in {-1, 26 * 24 + 23, 60 * 24}}]

TinyReports(utcnow) ==
    {[type |-> "WELL_LIT", severity |-> 10, reported_at |-> utcnow],
     [type |-> "UNSAFE_AREA", severity |-> 10, reported_at |-> utcnow],
     [type |-> "UNSAFE_AREA", severity |-> 1, reported_at |-> utcnow - 27 * 24],
     [type |-> "OTHER", severity |-> 5, reported_at |-> utcnow + 1]}

ReportLists(utcnow) ==
    {<<r>> : r \in SingleReports(utcnow)}
        \cup SeqsUpTo(SmallReports(utcnow), MaxLen)

ActiveCounts == {0, 5, 10, 20}

IndexHours == {3, 7, 12, 22}

NewsFactors ==
    {Rat(k, 100) : k \in {30, 50, 89, 90, 91, 100, 109, 110, 111, 130, 150}}

CallTimeFactor ==
    /\ call = Idle
    /\ \E h \in 0..23 :
           call' = [fn |-> "time_factor", hour |-> h,
                    ret |-> calculate_time_factor(h)]
    /\ UNCHANGED dbVars

CallDensityFactor ==
    /\ call = Idle
    /\ \E n \in 0..MaxActive :
           call' = [fn |-> "density_factor", active |-> n,
                    ret |-> calculate_density_factor(n)]
    /\ UNCHANGED dbVars

CallReportsFactor ==
    /\ call = Idle
    /\ \E rs \in ReportLists(CalcEpoch) :
           call' = [fn |-> "reports_factor", reports |-> rs,
                    utcnow |-> CalcEpoch,
                    path |-> reports_factor_path(rs, CalcEpoch),
                    ret |-> calculate_reports_factor(rs, CalcEpoch)]
    /\ UNCHANGED dbVars

CallCityIndex ==
    /\ call = Idle
    /\ \E h \in IndexHours, n \in ActiveCounts, nf \in NewsFactors :
         \E rs \in SeqsUpTo(TinyReports(CalcEpoch + h), MaxIdxLen) :
           call' = [fn |-> "city_index", reports |-> rs, active |-> n,
                    utcnow |-> CalcEpoch + h, news_factor |-> nf,
                    raw |-> city_safety_index_raw(rs, n, CalcEpoch + h, nf),
                    ret |-> city_safety_index(rs, n, CalcEpoch + h, nf),
                    level |-> get_safety_level(
                                  city_safety_index(rs, n, CalcEpoch + h, nf))]
    /\ UNCHANGED dbVars

CallAreaIndex ==
    /\ call = Idle
    /\ \E h \in IndexHours, n \in ActiveCounts, nf \in NewsFactors :
         \E rs \in SeqsUpTo(TinyReports(CalcEpoch + h), MaxIdxLen) :
           call' = [fn |-> "area_index", reports |-> rs, active |-> n,
                    utcnow |-> CalcEpoch + h, news_factor |-> nf,
                    raw |-> area_safety_index_raw(rs, n, CalcEpoch + h, nf),
                    ret |-> area_safety_index(rs, n, CalcEpoch + h, nf),
                    level |-> get_safety_level(
                                  area_safety_index(rs, n, CalcEpoch + h, nf))]
    /\ UNCHANGED dbVars

(* The inline derivation from one article, lines 162-184, on articles     *)
(* drawn over every threat level.                                          *)
ArticleAgeHours == {0, 23, 24, 6 * 24, 6 * 24 + 23, 7 * 24}

DrawnArticles(utcnow) ==
    {[id |-> 1, cityId |-> "c1", latitude |-> None, longitude |-> None,
      locationRadius |-> None, threatLevel |-> Some(t),
      sentimentPolarity |-> Rat(sp, 2), confidence |-> Rat(cf, 4),
      processedAt |-> utcnow - age, isRelevant |-> TRUE,
      isProcessed |-> TRUE] :
        t \in 1..10, sp \in -2..2, cf \in {0, 3, 4}, age \in ArticleAgeHours}

CallArticleFactor ==
    /\ call = Idle
    /\ \E a \in DrawnArticles(CalcEpoch) :
           call' = [fn |-> "article_factor", article |-> a,
                    utcnow |-> CalcEpoch,
                    safety_factor |-> article_safety_factor(a),
                    weight |-> article_weight(a, CalcEpoch)]
    /\ UNCHANGED dbVars

CallReturn ==
    /\ call # Idle
    /\ call' = Idle
    /\ UNCHANGED dbVars

NextCalc ==
    \/ CallTimeFactor
    \/ CallDensityFactor
    \/ CallReportsFactor
    \/ CallCityIndex
    \/ CallAreaIndex
    \/ CallArticleFactor
    \/ CallReturn

SpecCalc == Init /\ [][NextCalc]_vars

-----------------------------------------------------------------------------
(* The requests of the safety routes, direct calls of the composers and    *)
(* the clock.  Requests are handled one at a time and a request is one     *)
(* action; resp holds its outcome until the client has it (Deliver).  call *)
(* holds the last direct call of a composer until the caller drops it      *)
(* (CallReturn); no request is handled meanwhile, so between two direct    *)
(* calls that call relates nothing writes the database: only the clock     *)
(* may move.                                                               *)

MaxReports == 1

MaxTicks == 1

TokensPerReport == 5

TickHours == {1, 31 * 24 + 14}

Reporters == {"u1"}

RequestCityIds == CityIds \cup {"nx"}

ReportKinds == {<<"UNSAFE_AREA", 8>>}

AreaQueries ==
    {[latitude |-> 10000, longitude |-> 10000, radius_km |-> 1],
     [latitude |-> 10000, longitude |-> 10000, radius_km |-> 500]}

Quiet == resp = NoRequest /\ call = Idle

(* grid_size = 0.01 degree, the default of the query parameter.            *)
DefaultGridSize == 100

HeatmapFailPoints == {"none", "reports"}

(* days = 30, the default of the query parameter.                          *)
DefaultDays == 30

Response(op, st, city_id, score, fail) ==
    [op |-> op, status |-> st, city |-> city_id, score |-> score,
     fail |-> fail]

CreateSafetyReport_award_first(u, city_id, kind, fail) ==
    /\ Quiet
    /\ IF city_id \notin DOMAIN cities
       THEN /\ resp' = Response("create_safety_report", 404, city_id, 0, fail)
            /\ tokens' = [tokens EXCEPT ![u] = @ + 5]
            /\ UNCHANGED <<reports, cities>>
       ELSE /\ Len(reports) < MaxReports
            /\ LET row == [userId |-> u, cityId |-> city_id,
                           latitude |-> cities[city_id].latitude,
                           longitude |-> cities[city_id].longitude,
                           type |-> kind[1], severity |-> kind[2],
                           reportedAt |-> now, isVerified |-> FALSE,
                           isActive |-> TRUE]
                   idx == calculate_city_safety_index(Append(reports, row),
                                                      city_id, now, fail)
               IN  /\ reports' = Append(reports, row)
                   /\ tokens' = [tokens EXCEPT ![u] = @ + 5]
                   /\ IF idx.raised
                      THEN /\ cities' = cities
                           /\ resp' = Response("create_safety_report", 500,
                                               city_id, 0, fail)
                      ELSE /\ cities' = [cities EXCEPT
                                           ![city_id].safetyIndex = idx.ret]
                           /\ resp' = Response("create_safety_report", 200,
                                               city_id, idx.ret, fail)
    /\ UNCHANGED <<quests, questprogress, users, now, ticks, activeUsers,
                   proofs, articles, impacts, call, inflight>>

(* POST /report, lines 378-434.                                            *)
CreateSafetyReport(u, city_id, kind, fail) ==
    /\ Quiet
    /\ IF city_id \notin DOMAIN cities
       THEN /\ resp' = Response("create_safety_report", 404, city_id, 0, fail)
            /\ UNCHANGED <<reports, cities, tokens>>
       ELSE /\ Len(reports) < MaxReports
            /\ LET row == [userId |-> u, cityId |-> city_id,
                           latitude |-> cities[city_id].latitude,
                           longitude |-> cities[city_id].longitude,
                           type |-> kind[1], severity |-> kind[2],
                           reportedAt |-> now, isVerified |-> FALSE,
                           isActive |-> TRUE]
                   idx == calculate_city_safety_index(Append(reports, row),
                                                      city_id, now, fail)
               IN  /\ reports' = Append(reports, row)
                   /\ tokens' = [tokens EXCEPT ![u] = @ + TokensPerReport]
                   /\ IF idx.raised
                      THEN /\ cities' = cities
                           /\ resp' = Response("create_safety_report", 500,
                                               city_id, 0, fail)
                      ELSE /\ cities' = [cities EXCEPT
                                           ![city_id].safetyIndex = idx.ret]
                           /\ resp' = Response("create_safety_report", 200,
                                               city_id, idx.ret, fail)
    /\ UNCHANGED <<quests, questprogress, users, now, ticks, activeUsers,
                   proofs, articles, impacts, call, inflight>>

VerifySafetyReport_stale_read(u, report_id, verified, fail) ==
    /\ Quiet
    /\ IF report_id \notin DOMAIN reports
       THEN /\ resp' = Response("verify_safety_report", 404, "", 0, fail)
            /\ UNCHANGED <<reports, cities>>
       ELSE LET city_id == reports[report_id].cityId
                updated == [reports EXCEPT ![report_id].isVerified = verified]
                idx == calculate_city_safety_index(reports, city_id, now, fail)
            IN  /\ reports' = updated
                /\ IF idx.raised
                   THEN /\ cities' = cities
                        /\ resp' = Response("verify_safety_report", 500,
                                            city_id, 0, fail)
                   ELSE /\ cities' = [cities EXCEPT
                                        ![city_id].safetyIndex = idx.ret]
                        /\ resp' = Response("verify_safety_report", 200,
                                            city_id, idx.ret, fail)
    /\ UNCHANGED <<quests, questprogress, users, now, ticks, tokens,
                   activeUsers, proofs, articles, impacts, call, inflight>>

(* POST /verify/{report_id}, lines 648-685.                                *)
VerifySafetyReport(u, report_id, verified, fail) ==
    /\ Quiet
    /\ IF report_id \notin DOMAIN reports
       THEN /\ resp' = Response("verify_safety_report", 404, "", 0, fail)
            /\ UNCHANGED <<reports, cities>>
       ELSE LET city_id == reports[report_id].cityId
                updated == [reports EXCEPT ![report_id].isVerified = verified]
                idx == calculate_city_safety_index(updated, city_id, now, fail)
            IN  /\ reports' = updated
                /\ IF idx.raised
                   THEN /\ cities' = cities
                        /\ resp' = Response("verify_safety_report", 500,
                                            city_id, 0, fail)
                   ELSE /\ cities' = [cities EXCEPT
                                        ![city_id].safetyIndex = idx.ret]
                        /\ resp' = Response("verify_safety_report", 200,
                                            city_id, idx.ret, fail)
    /\ UNCHANGED <<quests, questprogress, users, now, ticks, tokens,
                   activeUsers, proofs, articles, impacts, call, inflight>>

(* GET /index/city/{city_id}, lines 504-550.                               *)
GetCitySafetyIndex(city_id, fail) ==
    /\ Quiet
    /\ IF city_id \notin DOMAIN cities
       THEN /\ resp' = Response("get_city_safety_index", 404, city_id, 0, fail)
            /\ cities' = cities
       ELSE LET idx == calculate_city_safety_index(reports, city_id, now, fail)
            IN  IF idx.raised
                THEN /\ cities' = cities
                     /\ resp' = Response("get_city_safety_index", 500,
                                         city_id, 0, fail)
                ELSE /\ cities' = [cities EXCEPT
                                     ![city_id].safetyIndex = idx.ret]
                     /\ resp' = Response("get_city_safety_index", 200,
                                         city_id, idx.ret, fail)
    /\ UNCHANGED <<quests, questprogress, users, now, ticks, reports, tokens,
                   activeUsers, proofs, articles, impacts, call, inflight>>

GetAreaSafetyIndex_persisting(q, fail) ==
    /\ Quiet
    /\ LET idx == calculate_area_safety_index(reports, q.latitude,
                      q.longitude, q.radius_km, now, fail)
       IN  /\ resp' = IF idx.raised
                      THEN Response("get_area_safety_index", 500, "", 0, fail)
                      ELSE Response("get_area_safety_index", 200, "", idx.ret,
                                    fail)
           /\ cities' = IF idx.raised THEN cities
                        ELSE [cities EXCEPT ![closest_city].safetyIndex =
                                                idx.ret]
    /\ UNCHANGED <<quests, questprogress, users, now, ticks, reports, tokens,
                   activeUsers, proofs, articles, impacts, call, inflight>>

(* GET /index/area, lines 552-573.                                         *)
GetAreaSafetyIndex(q, fail) ==
    /\ Quiet
    /\ LET idx == calculate_area_safety_index(reports, q.latitude,
                      q.longitude, q.radius_km, now, fail)
       IN  resp' = IF idx.raised
                   THEN Response("get_area_safety_index", 500, "", 0, fail)
                   ELSE Response("get_area_safety_index", 200, "", idx.ret, fail)
    /\ UNCHANGED <<tables, call, inflight>>

(* GET /heatmap/{city_id}, lines 575-646.  grid_size is in units of 1e-4   *)
(* degree; a cell is keyed by its snapped coordinates.                     *)
heatmap_reports(rs, city_id, days, utcnow) ==
    SelectSeq(rs, LAMBDA r :
        /\ r.cityId = city_id
        /\ r.reportedAt >= utcnow - days * HoursPerDay
        /\ r.isVerified)

snap_to_grid_floor(coord, grid_size) ==
    (coord \div grid_size) * grid_size

snap_to_grid(coord, grid_size) ==
    RoundHalfEven(Rat(coord, grid_size)) * grid_size

grid_key(r, grid_size) ==
    <<snap_to_grid(r.latitude, grid_size), snap_to_grid(r.longitude, grid_size)>>

cell_reports_by_latitude(rows, grid_size, key) ==
    SelectSeq(rows, LAMBDA r : snap_to_grid(r.latitude, grid_size) = key[1])

cell_reports(rows, grid_size, key) ==
    SelectSeq(rows, LAMBDA r : grid_key(r, grid_size) = key)

heatmap_data_city_wide(rows, grid_size, utcnow) ==
    {[latitude |-> key[1], longitude |-> key[2],
      safety_score |->
          RMul(calculate_reports_factor(reports_data(rows), utcnow), RInt(10)),
      report_count |-> Len(cell_reports(rows, grid_size, key))] :
        key \in {grid_key(rows[i], grid_size) : i \in DOMAIN rows}}

heatmap_data(rows, grid_size, utcnow) ==
    {[latitude |-> key[1], longitude |-> key[2],
      safety_score |->
          RMul(calculate_reports_factor(
                   reports_data(cell_reports(rows, grid_size, key)), utcnow),
               RInt(10)),
      report_count |-> Len(cell_reports(rows, grid_size, key))] :
        key \in {grid_key(rows[i], grid_size) : i \in DOMAIN rows}}

GetSafetyHeatmap(city_id, grid_size, days, fail) ==
    /\ Quiet
    /\ resp' = IF city_id \notin DOMAIN cities
               THEN Response("get_safety_heatmap", 404, city_id, 0, fail)
               ELSE IF fail = "reports"
               THEN Response("get_safety_heatmap", 500, city_id, 0, fail)
               ELSE [op |-> "get_safety_heatmap", status |-> 200,
                     city |-> city_id, score |-> 0, fail |-> fail,
                     grid_size |-> grid_size,
                     heatmap_data |->
                         heatmap_data(heatmap_reports(reports, city_id, days,
                                                      now),
                                      grid_size, now),
                     total_cells |->
                         Cardinality(
                             heatmap_data(heatmap_reports(reports, city_id,
                                                          days, now),
                                          grid_size, now))]
    /\ UNCHANGED <<tables, call, inflight>>

(* days = 7, limit = 50 and offset = 0, the defaults of the query          *)
(* parameters of get_safety_reports.                                       *)
DefaultReportDays == 7

DefaultLimit == 50

DefaultOffset == 0

(* where_clause, lines 452-465; a row's id is its place in the table.      *)
safety_reports_where(rs, city_id, report_type, days, verified_only, utcnow) ==
    {i \in DOMAIN rs :
        /\ rs[i].reportedAt >= utcnow - days * HoursPerDay
        /\ rs[i].isActive
        /\ city_id # None => rs[i].cityId = Val(city_id)
        /\ report_type # None => rs[i].type = Val(report_type)
        /\ verified_only => rs[i].isVerified}

(* order = {"reportedAt": "desc"}, line 470; rows of one instant in the    *)
(* order of the table.                                                     *)
RECURSIVE order_reported_at_desc(_, _)
order_reported_at_desc(rs, ids) ==
    IF ids = {} THEN <<>>
    ELSE LET first == CHOOSE i \in ids : \A j \in ids :
                          \/ rs[j].reportedAt < rs[i].reportedAt
                          \/ rs[j].reportedAt = rs[i].reportedAt /\ i <= j
         IN  <<first>> \o order_reported_at_desc(rs, ids \ {first})

(* skip = offset, take = limit, lines 468-469.                             *)
skip_take(ids, offset, limit) ==
    SubSeq(ids, offset + 1,
           IF offset + limit < Len(ids) THEN offset + limit ELSE Len(ids))

(* The distance filter, lines 474-486; area is None unless latitude,       *)
(* longitude and radius_km are all given.                                  *)
within_radius(rs, ids, area) ==
    IF area = None THEN ids
    ELSE SelectSeq(ids, LAMBDA i :
             geodesic_m(Val(area).latitude, Val(area).longitude,
                        rs[i].latitude, rs[i].longitude)
                 <= Val(area).radius_km * 1000)

(* SafetyReportResponse, lines 488-501.                                    *)
SafetyReportResponse(rs, i) ==
    [id |-> i, city_id |-> rs[i].cityId, latitude |-> rs[i].latitude,
     longitude |-> rs[i].longitude, type |-> rs[i].type,
     severity |-> rs[i].severity, is_verified |-> rs[i].isVerified,
     reported_at |-> rs[i].reportedAt]

(* GET /reports, lines 436-502.                                            *)
GetSafetyReports(city_id, area, report_type, days, verified_only, limit, offset, fail) ==
    /\ Quiet
    /\ resp' =
           IF fail = "reports"
           THEN Response("get_safety_reports", 500, city_id, 0, fail)
           ELSE LET ids == within_radius(reports,
                               skip_take(order_reported_at_desc(reports,
                                             safety_reports_where(reports,
                                                 city_id, report_type, days,
                                                 verified_only, now)),
                                         offset, limit),
                               area)
                IN  [op |-> "get_safety_reports", status |-> 200,
                     city |-> city_id, score |-> 0, fail |-> fail,
                     days |-> days, verified_only |-> verified_only,
                     reports |-> [k \in 1..Len(ids) |->
                                     SafetyReportResponse(reports, ids[k])]]
    /\ UNCHANGED <<tables, call, inflight>>

(* The client has the response.                                            *)
Deliver ==
    /\ resp # NoRequest
    /\ resp' = NoRequest
    /\ UNCHANGED <<tables, call, inflight>>

(* What the caller keeps of the call before this one: its time and score,  *)
(* when that was a call of the same composer for the same city or area and *)
(* every lookup answered in both calls.                                    *)
PreviousCall(fn, target, fail) ==
    IF call.fn = fn /\ call.target = target /\ call.fail = "none"
          /\ fail = "none"
    THEN Some([at |-> call.at, ret |-> call.out.ret])
    ELSE None

(* A direct call of a composer, as a test or another module makes it.      *)
ComposeCity(city_id, fail) ==
    /\ resp = NoRequest
    /\ LET idx == calculate_city_safety_index(reports, city_id, now, fail)
       IN  call' = [fn |-> "calculate_city_safety_index",
                    target |-> city_id, at |-> now, fail |-> fail,
                    out |-> idx,
                    prev |-> PreviousCall("calculate_city_safety_index",
                                          city_id, fail)]
    /\ UNCHANGED dbVars

ComposeArea(q, fail) ==
    /\ resp = NoRequest
    /\ LET idx == calculate_area_safety_index(reports, q.latitude,
                      q.longitude, q.radius_km, now, fail)
       IN  call' = [fn |-> "calculate_area_safety_index", target |-> q,
                    at |-> now, fail |-> fail, out |-> idx,
                    prev |-> PreviousCall("calculate_area_safety_index", q,
                                          fail)]
    /\ UNCHANGED dbVars

(* The clock moves on.                                                     *)
Tick(dt) ==
    /\ resp = NoRequest
    /\ ticks < MaxTicks
    /\ now' = now + dt
    /\ ticks' = ticks + 1
    /\ UNCHANGED <<quests, questprogress, users, reports, cities, tokens,
                   activeUsers, proofs, articles, impacts, resp, call,
                   inflight>>

Next ==
    \/ \E u \in Reporters, c \in RequestCityIds, kind \in ReportKinds,
          fail \in RequestFailPoints :
           CreateSafetyReport(u, c, kind, fail)
    \/ \E u \in Reporters, id \in 1..(MaxReports + 1), verified \in BOOLEAN,
          fail \in RequestFailPoints :
           VerifySafetyReport(u, id, verified, fail)
    \/ \E c \in RequestCityIds, fail \in RequestFailPoints :
           GetCitySafetyIndex(c, fail)
    \/ \E q \in AreaQueries, fail \in RequestFailPoints :
           GetAreaSafetyIndex(q, fail)
    \/ \E c \in RequestCityIds, fail \in HeatmapFailPoints :
           GetSafetyHeatmap(c, DefaultGridSize, DefaultDays, fail)
    \/ Deliver
    \/ \E c \in CityIds, fail \in FailPoints : ComposeCity(c, fail)
    \/ \E q \in AreaQueries, fail \in FailPoints : ComposeArea(q, fail)
    \/ CallReturn
    \/ \E dt \in TickHours : Tick(dt)

Spec == Init /\ [][Next]_vars

-----------------------------------------------------------------------------
(* The heatmap and the composers on safetyreport tables drawn from a pool  *)
(* of rows, as earlier create and verify requests leave them: verified and *)
(* unverified reports on both sides of cell borders, a report of another   *)
(* city, a report older than the window.                                   *)

MaxHeatReports == 2

HeatmapRow(city_id, lat, lon, type, severity, verified, t) ==
    [userId |-> "u1", cityId |-> city_id, latitude |-> lat,
     longitude |-> lon, type |-> type, severity |-> severity,
     reportedAt |-> t, isVerified |-> verified, isActive |-> TRUE]

HeatmapRowPool(t) ==
    {HeatmapRow("c1", 10001, 10001, "UNSAFE_AREA", 8, TRUE, t),
     HeatmapRow("c1", 10049, 10049, "WELL_LIT", 6, TRUE, t),
     HeatmapRow("c1", 10050, 10050, "UNSAFE_AREA", 2, TRUE, t),
     HeatmapRow("c1", 10051, 10051, "PICKPOCKET_RISK", 5, TRUE, t),
     HeatmapRow("c1", 10150, 10150, "OTHER", 5, TRUE, t),
     HeatmapRow("c1", 10001, 10051, "POLICE_PRESENCE", 9, TRUE, t),
     HeatmapRow("c1", 10001, 10001, "UNSAFE_AREA", 10, FALSE, t),
     HeatmapRow("c1", 10049, 10049, "WELL_LIT", 10, FALSE, t),
     HeatmapRow("c2", 20000, 20000, "TOURIST_SCAM", 7, TRUE, t),
     [HeatmapRow("c1", 10150, 10150, "UNSAFE_AREA", 9, TRUE, t)
          EXCEPT !.isActive = FALSE],
     HeatmapRow("c1", 10001, 10001, "UNSAFE_AREA", 9, TRUE,
                t - 31 * HoursPerDay)}

HeatmapGridSizes == {DefaultGridSize, 250}

(* The city filter and the area search of a listing request.               *)
ListingCities == {None, Some("c1")}

ListingAreas ==
    {None, Some([latitude |-> 10000, longitude |-> 10000, radius_km |-> 1])}

InitHeatmap ==
    /\ now = StartHour
    /\ ticks = 0
    /\ quests = QuestRows(StartHour)
    /\ questprogress = NoProgress
    /\ users = UserRows
    /\ reports \in SeqsUpTo(HeatmapRowPool(StartHour), MaxHeatReports)
    /\ cities = [c \in CityIds |->
                   [latitude |-> IF c = "c1" THEN 10000 ELSE 20000,
                    longitude |-> IF c = "c1" THEN 10000 ELSE 20000,
                    safetyIndex |-> 0]]
    /\ tokens = [u \in UserIds |-> IF u = "u1" THEN 5 * Len(reports) ELSE 0]
    /\ activeUsers = [c \in CityIds |->
                        IF c = "c1" THEN [i \in 1..20 |-> StartHour] ELSE <<>>]
    /\ proofs = [i \in 1..5 |->
                   [latitude |-> 10000, longitude |-> 10000,
                    timestamp |-> StartHour, isVerified |-> TRUE]]
    /\ articles = {a \in ArticlePool(StartHour) : a.id = 1}
    /\ impacts = {}
    /\ resp = NoRequest
    /\ inflight = NoRequests
    /\ call = Idle

NextHeatmap ==
    \/ \E c \in RequestCityIds, g \in HeatmapGridSizes,
          fail \in HeatmapFailPoints :
           GetSafetyHeatmap(c, g, DefaultDays, fail)
    \/ \E city_id \in ListingCities, area \in ListingAreas,
          verified_only \in BOOLEAN, fail \in HeatmapFailPoints :
           GetSafetyReports(city_id, area, None, DefaultReportDays,
                            verified_only, DefaultLimit, DefaultOffset, fail)
    \/ Deliver
    \/ \E c \in CityIds, fail \in FailPoints : ComposeCity(c, fail)
    \/ \E q \in AreaQueries, fail \in FailPoints : ComposeArea(q, fail)
    \/ CallReturn

SpecHeatmap == InitHeatmap /\ [][NextHeatmap]_vars

-----------------------------------------------------------------------------
(* Two workers handling create and verify requests at the same time.  A    *)
(* handler gives way at each await: between its database calls the other   *)
(* worker's calls may run.  A step is one awaited call; the composer reads *)
(* the safetyreport table in its first call and the other tables do not    *)
(* change here, so its calls are one step.  The table starts with one      *)
(* report as a create request left it.                                     *)

MaxRaceReports == 2

RaceRows(t) ==
    <<HeatmapRow("c1", 10000, 10000, "WELL_LIT", 6, FALSE, t)>>

RaceFailPoints == {"none", "reports"}

Worker(pc, op, report_id, verified, city_id, index, seen, st) ==
    [pc |-> pc, op |-> op, report_id |-> report_id, verified |-> verified,
     city |-> city_id, index |-> index, seen |-> seen, status |-> st]

InitRace ==
    /\ now = StartHour
    /\ ticks = 0
    /\ quests = QuestRows(StartHour)
    /\ questprogress = NoProgress
    /\ users = UserRows
    /\ reports = RaceRows(StartHour)
    /\ cities \in {[c \in CityIds |->
                      [latitude |-> IF c = "c1" THEN 10000 ELSE 20000,
                       longitude |-> IF c = "c1" THEN 10000 ELSE 20000,
                       safetyIndex |-> IF c = "c1" THEN v ELSE 0]] :
                   v \in 0..1000}
    /\ tokens = [u \in UserIds |-> IF u = "u1" THEN TokensPerReport ELSE 0]
    /\ activeUsers = [c \in CityIds |->
                        IF c = "c1" THEN [i \in 1..20 |-> StartHour] ELSE <<>>]
    /\ proofs = <<>>
    /\ articles = {a \in ArticlePool(StartHour) : a.id = 1}
    /\ impacts = {}
    /\ resp = NoRequest
    /\ inflight = NoRequests
    /\ call = Idle
    /\ cities["c1"].safetyIndex =
           calculate_city_safety_index(reports, "c1", now, "none").ret

(* verify_safety_report: db.safetyreport.find_unique, line 659.            *)
RaceVerifyFind(w, report_id, verified) ==
    /\ inflight[w].pc = "idle"
    /\ inflight' = [inflight EXCEPT ![w] =
           IF report_id \notin DOMAIN reports
           THEN Worker("done", "verify_safety_report", report_id, verified,
                       "", 0, <<>>, 404)
           ELSE Worker("update", "verify_safety_report", report_id, verified,
                       reports[report_id].cityId, 0, <<>>, 0)]
    /\ UNCHANGED <<tables, resp, call>>

(* verify_safety_report: db.safetyreport.update, lines 666-672.            *)
RaceVerifyUpdate(w) ==
    /\ inflight[w].pc = "update"
    /\ reports' = [reports EXCEPT
                     ![inflight[w].report_id].isVerified = inflight[w].verified]
    /\ inflight' = [inflight EXCEPT ![w].pc = "compute"]
    /\ UNCHANGED <<quests, questprogress, users, now, ticks, cities, tokens,
                   activeUsers, proofs, articles, impacts, resp, call>>

(* create_safety_report: db.city.find_unique, lines 387-392.               *)
RaceCreateFind(w, city_id) ==
    /\ inflight[w].pc = "idle"
    /\ Len(reports) + Cardinality({v \in Workers :
                                       inflight[v].pc = "insert"})
           < MaxRaceReports
    /\ inflight' = [inflight EXCEPT ![w] =
           IF city_id \notin DOMAIN cities
           THEN Worker("done", "create_safety_report", 0, FALSE, city_id, 0,
                       <<>>, 404)
           ELSE Worker("insert", "create_safety_report", 0, FALSE, city_id,
                       0, <<>>, 0)]
    /\ UNCHANGED <<tables, resp, call>>

(* create_safety_report: db.safetyreport.create, lines 395-405.            *)
RaceCreateInsert(w, kind) ==
    /\ inflight[w].pc = "insert"
    /\ reports' = Append(reports,
           HeatmapRow(inflight[w].city, cities[inflight[w].city].latitude,
                      cities[inflight[w].city].longitude, kind[1], kind[2],
                      FALSE, now))
    /\ inflight' = [inflight EXCEPT ![w].pc = "award",
                                    ![w].report_id = Len(reports) + 1]
    /\ UNCHANGED <<quests, questprogress, users, now, ticks, cities, tokens,
                   activeUsers, proofs, articles, impacts, resp, call>>

(* create_safety_report: db.user.update, lines 408-411.                    *)
RaceCreateAward(w) ==
    /\ inflight[w].pc = "award"
    /\ tokens' = [tokens EXCEPT !["u1"] = @ + TokensPerReport]
    /\ inflight' = [inflight EXCEPT ![w].pc = "compute"]
    /\ UNCHANGED <<quests, questprogress, users, now, ticks, reports, cities,
                   activeUsers, proofs, articles, impacts, resp, call>>

(* Both handlers: calculate_city_safety_index, lines 414-416 and 675-677.  *)
(* seen is the safetyreport table the composer read.                       *)
RaceCompute(w, fail) ==
    /\ inflight[w].pc = "compute"
    /\ LET idx == calculate_city_safety_index(reports, inflight[w].city, now,
                                              fail)
       IN  inflight' = [inflight EXCEPT ![w] =
               IF idx.raised
               THEN [@ EXCEPT !.pc = "done", !.status = 500]
               ELSE [@ EXCEPT !.pc = "store", !.index = idx.ret,
                              !.seen = reports]]
    /\ UNCHANGED <<tables, resp, call>>

RaceStore_recomputing(w) ==
    /\ inflight[w].pc = "store"
    /\ cities' = [cities EXCEPT ![inflight[w].city].safetyIndex =
                     calculate_city_safety_index(reports, inflight[w].city,
                                                 now, "none").ret]
    /\ inflight' = [inflight EXCEPT ![w].pc = "done", ![w].status = 200]
    /\ UNCHANGED <<quests, questprogress, users, now, ticks, reports, tokens,
                   activeUsers, proofs, articles, impacts, resp, call>>

(* Both handlers: db.city.update, lines 419-422 and 680-683.               *)
RaceStore(w) ==
    /\ inflight[w].pc = "store"
    /\ cities' = [cities EXCEPT
                    ![inflight[w].city].safetyIndex = inflight[w].index]
    /\ inflight' = [inflight EXCEPT ![w].pc = "done", ![w].status = 200]
    /\ UNCHANGED <<quests, questprogress, users, now, ticks, reports, tokens,
                   activeUsers, proofs, articles, impacts, resp, call>>

(* The handler returns or raises; the worker is free again.                *)
RaceFinish(w) ==
    /\ inflight[w].pc = "done"
    /\ inflight' = [inflight EXCEPT ![w] = IdleWorker]
    /\ UNCHANGED <<tables, resp, call>>

NextRace ==
    \E w \in Workers :
        \/ \E id \in 1..(MaxRaceReports + 1), verified \in BOOLEAN :
               RaceVerifyFind(w, id, verified)
        \/ RaceVerifyUpdate(w)
        \/ \E c \in RequestCityIds : RaceCreateFind(w, c)
        \/ \E kind \in ReportKinds : RaceCreateInsert(w, kind)
        \/ RaceCreateAward(w)
        \/ \E fail \in RaceFailPoints : RaceCompute(w, fail)
        \/ RaceStore(w)
        \/ RaceFinish(w)

SpecRace == InitRace /\ [][NextRace]_vars

-----------------------------------------------------------------------------
(* Direct calls of calculate_news_factor on news tables drawn from a pool  *)
(* of rows: articles tied to a city or placed by coordinates, fresh or     *)
(* older than the 7-day window, with and without impacts; impacts active   *)
(* or not, expired or not, with negative and large factors.                *)

MaxArticles == 2

NewsArticlePool(t) ==
    {[id |-> 1, cityId |-> "c1", latitude |-> None, longitude |-> None,
      locationRadius |-> None, threatLevel |-> Some(9),
      sentimentPolarity |-> Rat(-1, 2), confidence |-> RInt(1),
      processedAt |-> t, isRelevant |-> TRUE, isProcessed |-> TRUE],
     [id |-> 2, cityId |-> "c1", latitude |-> Some(20000),
      longitude |-> Some(20000), locationRadius |-> None,
      threatLevel |-> Some(2), sentimentPolarity |-> RInt(0),
      confidence |-> RInt(1),
      processedAt |-> t, isRelevant |-> TRUE, isProcessed |-> TRUE],
     [id |-> 3, cityId |-> "c2", latitude |-> Some(10010),
      longitude |-> Some(10010), locationRadius |-> Some(5),
      threatLevel |-> Some(5), sentimentPolarity |-> RInt(1),
      confidence |-> Rat(1, 2),
      processedAt |-> t - HoursPerDay, isRelevant |-> TRUE,
      isProcessed |-> TRUE],
     [id |-> 4, cityId |-> "c1", latitude |-> None, longitude |-> None,
      locationRadius |-> None, threatLevel |-> None,
      sentimentPolarity |-> RInt(0), confidence |-> RInt(1),
      processedAt |-> t, isRelevant |-> TRUE, isProcessed |-> TRUE],
     [id |-> 5, cityId |-> "c1", latitude |-> None, longitude |-> None,
      locationRadius |-> None, threatLevel |-> Some(10),
      sentimentPolarity |-> RInt(-1), confidence |-> RInt(1),
      processedAt |-> t - 8 * HoursPerDay, isRelevant |-> TRUE,
      isProcessed |-> TRUE],
     [id |-> 6, cityId |-> "c1", latitude |-> None, longitude |-> None,
      locationRadius |-> None, threatLevel |-> Some(8),
      sentimentPolarity |-> RInt(0), confidence |-> RInt(0),
      processedAt |-> t, isRelevant |-> TRUE, isProcessed |-> TRUE]}

NewsImpactPool(t) ==
    {[id |-> 1, newsArticleId |-> 4, isActive |-> TRUE,
      impactFactor |-> Rat(13, 10), weightFactor |-> RInt(1),
      decayFactor |-> Rat(1, 2), expiresAt |-> t + 14 * HoursPerDay],
     [id |-> 2, newsArticleId |-> 1, isActive |-> TRUE,
      impactFactor |-> RInt(3), weightFactor |-> RInt(1),
      decayFactor |-> RInt(1), expiresAt |-> t - HoursPerDay],
     [id |-> 3, newsArticleId |-> 1, isActive |-> FALSE,
      impactFactor |-> RInt(-5), weightFactor |-> RInt(1),
      decayFactor |-> RInt(1), expiresAt |-> t + 14 * HoursPerDay],
     [id |-> 4, newsArticleId |-> 3, isActive |-> TRUE,
      impactFactor |-> Rat(1, 2), weightFactor |-> RInt(-1),
      decayFactor |-> RInt(1), expiresAt |-> t + 14 * HoursPerDay],
     [id |-> 5, newsArticleId |-> 3, isActive |-> TRUE,
      impactFactor |-> RInt(-2), weightFactor |-> RInt(1000),
      decayFactor |-> RInt(1), expiresAt |-> t + 14 * HoursPerDay]}

InitNews ==
    /\ now = StartHour
    /\ ticks = 0
    /\ quests = QuestRows(StartHour)
    /\ questprogress = NoProgress
    /\ users = UserRows
    /\ reports = <<>>
    /\ cities = [c \in CityIds |->
                   [latitude |-> IF c = "c1" THEN 10000 ELSE 20000,
                    longitude |-> IF c = "c1" THEN 10000 ELSE 20000,
                    safetyIndex |-> 0]]
    /\ tokens = [u \in UserIds |-> 0]
    /\ activeUsers = [c \in CityIds |-> <<>>]
    /\ proofs = <<>>
    /\ articles \in {as \in SUBSET NewsArticlePool(StartHour) :
                        Cardinality(as) <= MaxArticles}
    /\ impacts \in SUBSET {i \in NewsImpactPool(StartHour) :
                              i.newsArticleId \in {a.id : a \in articles}}
    /\ resp = NoRequest
    /\ inflight = NoRequests
    /\ call = Idle

(* The targets a caller passes: a city with its own centre, as the city    *)
(* composer does, or a city with another point, as the area composer does. *)
NewsTargets ==
    {<<"c1", 10000, 10000>>, <<"c2", 20000, 20000>>, <<"c1", 10010, 10010>>}

NewsFailPoints == {"none", "news_articles", "news_impacts"}

(* The ids of relevant_articles when the loop over them is reached.        *)
news_relevant_ids(city_id, latitude, longitude, utcnow, fail) ==
    IF fail = "news_articles" THEN {}
    ELSE {a.id : a \in relevant_articles(city_id, latitude, longitude, utcnow)}

CallNewsFactor(target, fail) ==
    /\ call = Idle
    /\ call' = [fn |-> "news_factor", city_id |-> target[1],
                latitude |-> target[2], longitude |-> target[3],
                utcnow |-> now, fail |-> fail,
                used |-> news_relevant_ids(target[1], target[2], target[3],
                                           now, fail),
                ret |-> calculate_news_factor(target[1], target[2],
                            target[3], now, fail).value]
    /\ UNCHANGED dbVars

NextNews ==
    \/ \E target \in NewsTargets, fail \in NewsFailPoints :
           CallNewsFactor(target, fail)
    \/ CallReturn

SpecNews == InitNews /\ [][NextNews]_vars

-----------------------------------------------------------------------------
(* The quest requests of src/app/api/routes/quests.py, one at a time,      *)
(* checked under SpecQuests.                                               *)

MaxProofs == 2

RequestQuestIds == QuestIds \cup {"qx"}

StartFailPoints == {"none", "progress_create"}

VerifyFailPoints ==
    {"none", "proof_create", "progress_update", "quest_update", "user_update"}

(* LocationProofCreate: the point claimed, if any, and the place.          *)
LocationProofs ==
    {[quest_point_id |-> p, latitude |-> l, longitude |-> l] :
        p \in {None, Some("p1"), Some("p2"), Some("px")},
        l \in {10000, 10010}}

(* calculate_distance, lines 21-36, in metres: the great-circle distance   *)
(* on the model's grid, where a step of 0.0001 degree is 11 m.             *)
calculate_distance(lat1, lon1, lat2, lon2) ==
    11 * (Abs(lat2 - lat1) + Abs(lon2 - lon1))

QuestResponse(op, st, u, quest_id, detail, verified, completed) ==
    [op |-> op, status |-> st, user |-> u, quest |-> quest_id,
     detail |-> detail, location_verified |-> verified,
     quest_completed |-> completed]

(* The checks of start_quest in their order, lines 214-279: the status and *)
(* detail of the HTTPException raised, or 200.                             *)
start_quest_outcome(u, quest_id, utcnow, fail) ==
    IF quest_id \notin DOMAIN quests \/ ~quests[quest_id].isActive
    THEN <<404, "Quest not found or not available">>
    ELSE LET quest == quests[quest_id]
             existing_progress == questprogress[<<u, quest_id>>]
         IN  IF users[u].level < quest.requiredLevel
             THEN <<400, "Required level">>
             ELSE IF quest.availableFrom # None
                        /\ Val(quest.availableFrom) > utcnow
             THEN <<400, "Quest not yet available">>
             ELSE IF quest.availableTo # None
                        /\ Val(quest.availableTo) < utcnow
             THEN <<400, "Quest no longer available">>
             ELSE IF existing_progress # None
                        /\ Val(existing_progress).status = "completed"
             THEN <<400, "Quest already completed">>
             ELSE IF existing_progress # None
             THEN <<400, "Quest already in progress">>
             ELSE IF Truthy(quest.maxCompletions)
                        /\ quest.currentCompletions
                               >= Val(quest.maxCompletions)
             THEN <<400, "Quest has reached maximum completions">>
             ELSE IF fail = "progress_create"
             THEN <<500, "Internal Server Error">>
             ELSE <<200, "Quest started successfully">>

(* POST /{quest_id}/start, lines 205-281.                                  *)
StartQuest(u, quest_id, fail) ==
    /\ Quiet
    /\ LET outcome == start_quest_outcome(u, quest_id, now, fail)
       IN  /\ resp' = QuestResponse("start_quest", outcome[1], u, quest_id,
                                    outcome[2], FALSE, FALSE)
           /\ questprogress' =
                  IF outcome[1] = 200
                  THEN [questprogress EXCEPT ![<<u, quest_id>>] =
                           Some([status |-> "started",
                                 pointsVisited |-> <<>>])]
                  ELSE questprogress
    /\ UNCHANGED <<now, ticks, quests, users, reports, cities, tokens,
                   activeUsers, proofs, articles, impacts, call, inflight>>

already_completed_never(quest_progress) == FALSE

(* quest_progress.status == "completed", line 309.                         *)
already_completed(quest_progress) == quest_progress.status = "completed"

(* next(qp for qp in quest.questPoints if qp.id == ...), lines 320-323.    *)
find_quest_point(quest, quest_point_id) ==
    IF \E qp \in quest.questPoints : qp.id = quest_point_id
    THEN Some(CHOOSE qp \in quest.questPoints : qp.id = quest_point_id)
    ELSE None

(* points_visited after the claimed point is added, lines 365-370.         *)
points_visited_after(quest_progress, quest_point_id) ==
    IF quest_point_id # None
          /\ \A i \in DOMAIN quest_progress.pointsVisited :
                 quest_progress.pointsVisited[i] # Val(quest_point_id)
    THEN Append(quest_progress.pointsVisited, Val(quest_point_id))
    ELSE quest_progress.pointsVisited

(* all_required_visited or not quest.questPoints, lines 373-376.           *)
can_complete(quest, points_visited) ==
    \/ \A qp \in quest.questPoints :
           ~qp.isOptional =>
               \E i \in DOMAIN points_visited : points_visited[i] = qp.id
    \/ quest.questPoints = {}

(* The target of a proof: <<latitude, longitude, radius>>, lines 318-335.  *)
target_location(quest, quest_point_id) ==
    IF quest_point_id # None
    THEN LET quest_point == Val(find_quest_point(quest, Val(quest_point_id)))
         IN  <<quest_point.latitude, quest_point.longitude,
               quest_point.radius>>
    ELSE <<quest.latitude, quest.longitude, quest.radius>>

(* POST /{quest_id}/verify-location, lines 283-428: each awaited write is  *)
(* committed when it returns, so a write that fails leaves the earlier     *)
(* ones in place.                                                          *)
VerifyLocation(u, quest_id, location_proof, fail) ==
    /\ Quiet
    /\ LET quest_progress == IF <<u, quest_id>> \in DOMAIN questprogress
                             THEN questprogress[<<u, quest_id>>]
                             ELSE None
           Rejected(st, detail) ==
               /\ resp' = QuestResponse("verify_location", st, u, quest_id,
                                        detail, FALSE, FALSE)
               /\ UNCHANGED <<quests, questprogress, users, tokens, proofs>>
       IN  IF quest_progress = None
           THEN Rejected(404, "Quest not started")
           ELSE IF already_completed(Val(quest_progress))
           THEN Rejected(400, "Quest already completed")
           ELSE IF location_proof.quest_point_id # None
                     /\ find_quest_point(quests[quest_id],
                            Val(location_proof.quest_point_id)) = None
           THEN Rejected(404, "Quest point not found")
           ELSE IF fail = "proof_create"
           THEN Rejected(500, "Internal Server Error")
           ELSE
             LET quest == quests[quest_id]
                 target == target_location(quest,
                                           location_proof.quest_point_id)
                 distance == calculate_distance(location_proof.latitude,
                                 location_proof.longitude,
                                 target[1], target[2])
                 is_within_radius == distance <= target[3]
                 points_visited ==
                     points_visited_after(Val(quest_progress),
                                          location_proof.quest_point_id)
                 completes == is_within_radius
                                  /\ can_complete(quest, points_visited)
                 progress_written == is_within_radius
                                         /\ fail # "progress_update"
                 quest_written == completes
                     /\ fail \notin {"progress_update", "quest_update"}
                 user_written == completes /\ fail = "none"
             IN  /\ Len(proofs) < MaxProofs
                 /\ proofs' = Append(proofs,
                        [userId |-> u,
                         questPointId |-> location_proof.quest_point_id,
                         latitude |-> location_proof.latitude,
                         longitude |-> location_proof.longitude,
                         timestamp |-> now,
                         isVerified |-> is_within_radius])
                 /\ questprogress' =
                        IF progress_written
                        THEN [questprogress EXCEPT ![<<u, quest_id>>] =
                                 Some([status |-> IF completes
                                                  THEN "completed"
                                                  ELSE "in_progress",
                                       pointsVisited |-> points_visited])]
                        ELSE questprogress
                 /\ quests' =
                        IF quest_written
                        THEN [quests EXCEPT
                                 ![quest_id].currentCompletions = @ + 1]
                        ELSE quests
                 /\ users' =
                        IF user_written
                        THEN [users EXCEPT
                                 ![u].totalXP = @ + quest.xpReward]
                        ELSE users
                 /\ tokens' =
                        IF user_written
                        THEN [tokens EXCEPT ![u] = @ + quest.tokenReward]
                        ELSE tokens
                 /\ resp' =
                        IF is_within_radius /\ fail # "none"
                              /\ (completes \/ fail = "progress_update")
                        THEN QuestResponse("verify_location", 500, u,
                                           quest_id, "Internal Server Error",
                                           FALSE, FALSE)
                        ELSE QuestResponse("verify_location", 200, u,
                                 quest_id,
                                 IF is_within_radius
                                 THEN "Location verified successfully!"
                                 ELSE "Too far from target.",
                                 is_within_radius, completes)
    /\ UNCHANGED <<now, ticks, reports, cities, activeUsers, articles,
                   impacts, call, inflight>>

InitQuests ==
    /\ now = StartHour
    /\ ticks = 0
    /\ quests = QuestRows(StartHour)
    /\ questprogress = NoProgress
    /\ users = UserRows
    /\ reports = <<>>
    /\ cities = [c \in CityIds |->
                   [latitude |-> IF c = "c1" THEN 10000 ELSE 20000,
                    longitude |-> IF c = "c1" THEN 10000 ELSE 20000,
                    safetyIndex |-> 0]]
    /\ tokens = [u \in UserIds |-> 0]
    /\ activeUsers = [c \in CityIds |-> <<>>]
    /\ proofs = <<>>
    /\ articles = {}
    /\ impacts = {}
    /\ resp = NoRequest
    /\ inflight = NoRequests
    /\ call = Idle

NextQuests ==
    \/ \E u \in UserIds, q \in RequestQuestIds, fail \in StartFailPoints :
           StartQuest(u, q, fail)
    \/ \E u \in UserIds, q \in RequestQuestIds,
          location_proof \in LocationProofs, fail \in VerifyFailPoints :
           VerifyLocation(u, q, location_proof, fail)
    \/ Deliver

SpecQuests == InitQuests /\ [][NextQuests]_vars

-----------------------------------------------------------------------------
(* Properties of the calculator's functions, under SpecCalc.               *)

IsIndexCall == call.fn \in {"city_index", "area_index"}

(* C1: the score of calculate_city_safety_index and the safety_index of    *)
(* calculate_area_safety_index lie in [0.0, 10.0] for every report list,   *)
(* activity count, hour and news factor in [0.3, 1.5].                     *)
C1_IndexInRange == IsIndexCall => (0 <= call.ret /\ call.ret <= 1000)

(* A call in which the clamp is what keeps the score at 10.0.              *)
C1_Witness ==
    /\ call.fn = "city_index"
    /\ call.news_factor = Rat(15, 10)
    /\ Len(call.reports) = 2
    /\ call.ret = 1000

(* C2: with the default weights and news_factor = 1.0 the city score is    *)
(* 10 * (0.32 * reports + 0.24 * time + 0.24 * density) rounded to two     *)
(* decimals; no reports, no activity, hour 12 gives exactly 4.96.          *)
C2_DefaultWeightsScore ==
    (call.fn = "city_index" /\ call.news_factor = RInt(1)) =>
        LET rf == calculate_reports_factor(call.reports, call.utcnow)
            tf == calculate_time_factor(call.utcnow % 24)
            df == calculate_density_factor(call.active)
            thousand_times ==
                RAdd(RMul(RInt(320), rf),
                     RAdd(RMul(RInt(240), tf), RMul(RInt(240), df)))
        IN  /\ call.ret = RoundHalfEven(thousand_times)
            /\ (call.reports = <<>> /\ call.active = 0
                    /\ call.utcnow % 24 = 12) => call.ret = 496

C2_Witness ==
    /\ call.fn = "city_index"
    /\ call.news_factor = RInt(1)
    /\ call.reports = <<>>
    /\ call.active = 0
    /\ call.utcnow % 24 = 12
    /\ call.ret = 496

(* C6: calculate_time_factor is 0.6 for hours 22, 23, 0..6, 1.0 for 8..18  *)
(* and 0.8 for 7, 19, 20, 21, and returns nothing else.                    *)
C6_TimeFactorTable ==
    call.fn = "time_factor" =>
        /\ call.hour \in ({22, 23} \cup 0..6) => call.ret = Rat(6, 10)
        /\ call.hour \in 8..18 => call.ret = RInt(1)
        /\ call.hour \in {7, 19, 20, 21} => call.ret = Rat(8, 10)
        /\ call.ret \in {Rat(6, 10), Rat(8, 10), RInt(1)}

C6_Witness ==
    call.fn = "time_factor" /\ call.hour = 22 /\ call.ret = Rat(6, 10)

(* C7: calculate_density_factor is 1.0 from 20 up, 0.8 for 10..19, 0.6 for *)
(* 5..9 and 0.4 up to 4, hence non-decreasing in the count.                *)
C7_DensityFactorSteps ==
    call.fn = "density_factor" =>
        /\ call.active >= 20 => call.ret = RInt(1)
        /\ call.active \in 10..19 => call.ret = Rat(8, 10)
        /\ call.active \in 5..9 => call.ret = Rat(6, 10)
        /\ call.active <= 4 => call.ret = Rat(4, 10)
        /\ \A m \in 0..call.active :
               RLe(calculate_density_factor(m), call.ret)

C7_Witness ==
    call.fn = "density_factor" /\ call.active = 20 /\ call.ret = RInt(1)

(* The weighted average of C8 in integers: a score in tenths, a weight in  *)
(* thirtieths.                                                             *)
ClaimScore10(r) ==
    IF r.type \in {"WELL_LIT", "POLICE_PRESENCE", "CROWDED_AREA",
                   "EMERGENCY_SERVICES", "SAFE_TRANSPORT"}
    THEN r.severity
    ELSE IF r.type \in {"UNSAFE_AREA", "UNSAFE_TRANSPORT", "TOURIST_SCAM",
                        "PICKPOCKET_RISK"}
         THEN 10 - r.severity
         ELSE 5

ClaimWeight30(r, utcnow) ==
    LET d == (utcnow - r.reported_at) \div 24
    IN  IF 30 - d > 3 THEN 30 - d ELSE 3

RECURSIVE ClaimSumSW(_, _)
ClaimSumSW(rs, utcnow) ==
    IF rs = <<>> THEN 0
    ELSE ClaimScore10(Head(rs)) * ClaimWeight30(Head(rs), utcnow)
             + ClaimSumSW(Tail(rs), utcnow)

RECURSIVE ClaimSumW(_, _)
ClaimSumW(rs, utcnow) ==
    IF rs = <<>> THEN 0
    ELSE ClaimWeight30(Head(rs), utcnow) + ClaimSumW(Tail(rs), utcnow)

(* C8: calculate_reports_factor is 0.5 for the empty list and otherwise    *)
(* sum(score * weight) / sum(weight); one WELL_LIT report of severity 10   *)
(* gives 1.0, one UNSAFE_AREA report of severity 10 gives 0.0.             *)
C8_ReportsFactorAverage ==
    call.fn = "reports_factor" =>
        /\ call.reports = <<>> => call.ret = Rat(1, 2)
        /\ call.reports # <<>> =>
               call.ret[1] * 10 * ClaimSumW(call.reports, call.utcnow)
                   = call.ret[2] * ClaimSumSW(call.reports, call.utcnow)
        /\ (Len(call.reports) = 1 /\ call.reports[1].severity = 10
                /\ call.reports[1].type = "WELL_LIT") => call.ret = RInt(1)
        /\ (Len(call.reports) = 1 /\ call.reports[1].severity = 10
                /\ call.reports[1].type = "UNSAFE_AREA") => call.ret = RInt(0)

(* A fresh and an old report of opposite kinds: the average is weighted.   *)
C8_Witness ==
    /\ call.fn = "reports_factor"
    /\ Len(call.reports) = 2
    /\ call.reports[1].type = "WELL_LIT"
    /\ call.reports[2].type = "UNSAFE_AREA"
    /\ report_days_old(call.reports[1], call.utcnow) = -1
    /\ report_days_old(call.reports[2], call.utcnow) = 60
    /\ call.reports[1].severity = 10
    /\ call.reports[2].severity = 10
    /\ call.ret = Rat(31, 34)

(* C9: calculate_reports_factor lies in [0, 1] for severities 1..10, any   *)
(* types and ages, reports dated in the future included.                   *)
C9_ReportsFactorInUnit ==
    call.fn = "reports_factor" =>
        RLe(RInt(0), call.ret) /\ RLe(call.ret, RInt(1))

C9_Witness ==
    /\ call.fn = "reports_factor"
    /\ Len(call.reports) = MaxLen
    /\ \E i \in DOMAIN call.reports :
           call.reports[i].reported_at > call.utcnow
    /\ call.ret = RInt(1)

(* C10: every report's weight is at least 0.1, and exactly 0.1 from 27     *)
(* whole days of age on; so a non-empty list has a positive total weight   *)
(* and only the empty list takes a 0.5 default.                            *)
C10_WeightFloor ==
    call.fn = "reports_factor" =>
        /\ \A i \in DOMAIN call.reports :
               /\ RLe(Rat(1, 10), report_weight(call.reports[i], call.utcnow))
               /\ report_days_old(call.reports[i], call.utcnow) >= 27 =>
                      report_weight(call.reports[i], call.utcnow) = Rat(1, 10)
        /\ call.reports # <<>> =>
               RLt(RInt(0), total_weight(call.reports, call.utcnow))
        /\ call.path # "fallback"
        /\ call.path = "empty" <=> call.reports = <<>>

C10_Witness ==
    /\ call.fn = "reports_factor"
    /\ call.path = "average"
    /\ \A i \in DOMAIN call.reports :
           report_days_old(call.reports[i], call.utcnow) = 60
    /\ total_weight(call.reports, call.utcnow) = Rat(MaxLen, 10)

-----------------------------------------------------------------------------
(* Claims about the composers with their lookups, checked under Spec.      *)

IsComposerCall ==
    call.fn \in {"calculate_city_safety_index", "calculate_area_safety_index"}

IsRepeatedCityCall ==
    call.fn = "calculate_city_safety_index" /\ call.prev # None

(* What of the clock the city composer reads, stated from the spec: the    *)
(* band of the UTC hour, each report's and article's age in whole days and *)
(* its place inside or outside the 30-day or 7-day window, and each user's *)
(* place inside or outside the last 24 hours.                              *)
ClaimHourBand(t) ==
    LET h == t % 24
    IN  IF h >= 22 \/ h <= 6 THEN "night"
        ELSE IF h >= 8 /\ h <= 18 THEN "day" ELSE "between"

ClaimSameAge(stamp, t1, t2, window) ==
    /\ (t1 - stamp) \div 24 = (t2 - stamp) \div 24
    /\ (stamp >= t1 - window) <=> (stamp >= t2 - window)

ClaimSameClock(t1, t2) ==
    /\ ClaimHourBand(t1) = ClaimHourBand(t2)
    /\ \A i \in DOMAIN reports :
           ClaimSameAge(reports[i].reportedAt, t1, t2, 30 * 24)
    /\ \A a \in articles : ClaimSameAge(a.processedAt, t1, t2, 7 * 24)
    /\ \A c \in DOMAIN activeUsers : \A i \in DOMAIN activeUsers[c] :
           (activeUsers[c][i] >= t1 - 24) <=> (activeUsers[c][i] >= t2 - 24)

(* C3 as the spec states it: two calls of calculate_city_safety_index for  *)
(* the same city with no database write between them return the identical  *)
(* score.  The clock may have moved between the two calls.                 *)
C3_Idempotent ==
    IsRepeatedCityCall => call.out.ret = Val(call.prev).ret

(* C3, amended: two calls of calculate_city_safety_index for the same      *)
(* city, with no database write between them, every lookup answering in    *)
(* both, and the clock reading the same in all the composer uses of it     *)
(* (hour band, whole-day ages, window membership), return the identical    *)
(* score.                                                                  *)
C3_IdempotentAtSameClock ==
    (IsRepeatedCityCall /\ ClaimSameClock(Val(call.prev).at, call.at))
        => (~call.out.raised /\ call.out.ret = Val(call.prev).ret)

C3_Witness ==
    /\ IsRepeatedCityCall
    /\ Val(call.prev).at < call.at
    /\ ClaimSameClock(Val(call.prev).at, call.at)
    /\ \E i \in DOMAIN reports :
           reports[i].cityId = call.target /\ reports[i].isVerified
    /\ call.out.total_reports = 1
    /\ call.out.ret = Val(call.prev).ret

(* C4 as the spec states it: the composers never raise; whichever lookup   *)
(* fails (reports, activity count, city, news), a score is returned.       *)
C4_ComposerNeverRaises ==
    IsComposerCall => ~call.out.raised

(* C5: when a step inside calculate_news_factor fails (the article query,  *)
(* the impact query, the arithmetic on a malformed article),               *)
(* calculate_news_factor returns exactly 1.0 and the index computation     *)
(* completes with news_factor = 1.0: the score is the weighted sum of the  *)
(* other three factors, with no news adjustment.                           *)
ClaimNeutralNewsScore(out) ==
    Round2(RMul(Clamp01(RAdd(RAdd(RMul(out.reports_factor, Rat(32, 100)),
                                  RMul(out.time_factor, Rat(24, 100))),
                             RMul(out.density_factor, Rat(24, 100)))),
                RInt(10)))

C5_NewsFailureIsNeutral ==
    (IsComposerCall /\ (call.fail = "news_articles" \/ call.out.news_failed))
        => /\ ~call.out.raised
           /\ call.out.news_factor = RInt(1)
           /\ call.out.ret = ClaimNeutralNewsScore(call.out)

C5_Witness ==
    /\ call.fn = "calculate_city_safety_index"
    /\ call.fail = "none"
    /\ \E a \in articles : a.cityId = call.target /\ a.threatLevel = None
    /\ call.out.news_failed
    /\ ~call.out.raised
    /\ call.out.news_factor = RInt(1)

-----------------------------------------------------------------------------
(* Claims about calculate_news_factor, checked under SpecNews.             *)

IsNewsCall == call.fn = "news_factor"

NewsCallRelevant == {a \in articles : a.id \in call.used}

(* C11: calculate_news_factor returns exactly 1.0 when the article query   *)
(* returns no rows, when no returned article passes the geographic/city    *)
(* filter, and when the accumulated total weight is not positive.          *)
C11_NeutralWithoutNews ==
    (IsNewsCall /\ call.fail = "none"
        /\ \/ news_articles_query(call.city_id, call.utcnow) = {}
           \/ call.used = {}
           \/ ~RLt(RInt(0), news_total_weight(NewsCallRelevant, call.utcnow)))
        => call.ret = RInt(1)

C11_Witness ==
    /\ IsNewsCall
    /\ call.fail = "none"
    /\ call.used # {}
    /\ \A a \in NewsCallRelevant : ~article_raises(a)
    /\ RLt(news_total_weight(NewsCallRelevant, call.utcnow), RInt(0))
    /\ call.ret = RInt(1)

(* C12: every value calculate_news_factor returns lies in [0.3, 1.5], for  *)
(* any articles and impacts, negative or very large factors included.      *)
C12_NewsFactorInRange ==
    IsNewsCall => (RLe(Rat(3, 10), call.ret) /\ RLe(call.ret, Rat(15, 10)))

C12_Witness ==
    /\ IsNewsCall
    /\ call.fail = "none"
    /\ \E a \in NewsCallRelevant : \E i \in article_impacts(a) :
           RLt(i.impactFactor, RInt(0)) /\ RLt(RInt(100), i.weightFactor)
    /\ call.ret = Rat(3, 10)

(* C19 as the spec states it: an article of the 7-day, relevant and        *)
(* processed window contributes if and only if it is tied to the target    *)
(* city_id or its coordinates lie within its radius (50 km when unset) of  *)
(* the target point; an article tied to the target city contributes        *)
(* whatever its own coordinates are.                                       *)
ClaimOverlaps(a, latitude, longitude) ==
    /\ a.latitude # None
    /\ a.longitude # None
    /\ geodesic_m(latitude, longitude, Val(a.latitude), Val(a.longitude))
           <= 1000 * (IF a.locationRadius = None THEN 50
                      ELSE Val(a.locationRadius))

ClaimContributing(city_id, latitude, longitude, utcnow) ==
    {a \in articles :
        /\ a.processedAt >= utcnow - 7 * 24
        /\ a.isRelevant
        /\ a.isProcessed
        /\ (a.cityId = city_id \/ ClaimOverlaps(a, latitude, longitude))}

C19_ContributesIffTiedOrOverlapping ==
    (IsNewsCall /\ call.fail = "none")
        => call.used = {a.id : a \in ClaimContributing(call.city_id,
                                    call.latitude, call.longitude, call.utcnow)}

(* C20 as the spec states it: an impact that is expired or inactive never  *)
(* contributes: the value returned is the one computed from the impacts    *)
(* that are active and not expired, an article without any such impact     *)
(* falling back to its own analysis.                                       *)
ClaimLiveImpacts(a, utcnow) ==
    {i \in impacts :
        i.newsArticleId = a.id /\ i.isActive /\ i.expiresAt > utcnow}

RECURSIVE ClaimNewsImpact(_, _)
ClaimNewsImpact(as, utcnow) ==
    IF as = {} THEN RInt(0)
    ELSE LET a == CHOOSE x \in as : TRUE
             live == ClaimLiveImpacts(a, utcnow)
         IN  RAdd(ClaimNewsImpact(as \ {a}, utcnow),
                  IF live # {} THEN impacts_total_impact(live)
                  ELSE RMul(article_safety_factor(a),
                            article_weight(a, utcnow)))

RECURSIVE ClaimNewsWeight(_, _)
ClaimNewsWeight(as, utcnow) ==
    IF as = {} THEN RInt(0)
    ELSE LET a == CHOOSE x \in as : TRUE
             live == ClaimLiveImpacts(a, utcnow)
         IN  RAdd(ClaimNewsWeight(as \ {a}, utcnow),
                  IF live # {} THEN impacts_total_weight(live)
                  ELSE article_weight(a, utcnow))

ClaimNewsFactor(as, utcnow) ==
    IF RLt(RInt(0), ClaimNewsWeight(as, utcnow))
    THEN RMax(Rat(3, 10),
              RMin(Rat(15, 10),
                   RDiv(ClaimNewsImpact(as, utcnow),
                        ClaimNewsWeight(as, utcnow))))
    ELSE RInt(1)

C20_ExpiredOrInactiveIgnored ==
    (IsNewsCall /\ call.fail = "none" /\ call.used # {}
        /\ \A a \in NewsCallRelevant : a.threatLevel # None)
        => call.ret = ClaimNewsFactor(NewsCallRelevant, call.utcnow)

-----------------------------------------------------------------------------
(* Claims about the requests, checked under Spec.                          *)

(* C13: area-level computation is not persisted: a call of                 *)
(* calculate_area_safety_index, and a GET /index/area request, leave the   *)
(* safetyIndex of every city and every report unchanged.                   *)
C13_AreaNotPersisted ==
    [][((resp'.op = "get_area_safety_index" /\ resp' # resp)
           \/ (call'.fn = "calculate_area_safety_index" /\ call' # call))
          => (cities' = cities /\ reports' = reports)]_vars

C13_Witness ==
    /\ resp.op = "get_area_safety_index"
    /\ resp.status = 200
    /\ resp.score > 0
    /\ \A c \in DOMAIN cities : cities[c].safetyIndex # resp.score
    /\ \E i \in DOMAIN reports : reports[i].isVerified

(* C14: a create_safety_report, get_city_safety_index or                   *)
(* get_safety_heatmap request naming a city that does not exist ends with  *)
(* a not-found error and changes no state: no report, no tokens, no        *)
(* safetyIndex written.                                                    *)
C14_NotFoundChangesNothing ==
    [][(resp' # resp
          /\ resp'.op \in {"create_safety_report", "get_city_safety_index",
                           "get_safety_heatmap"}
          /\ resp'.city \notin DOMAIN cities)
          => (resp'.status = 404 /\ reports' = reports /\ tokens' = tokens
                 /\ cities' = cities)]_vars

C14_Witness ==
    /\ resp.op = "create_safety_report"
    /\ resp.status = 404
    /\ resp.city \notin DOMAIN cities
    /\ Len(reports) = 1
    /\ tokens["u1"] = 5

(* C17: requests being handled one at a time, every successful             *)
(* create_safety_report, verify_safety_report and get_city_safety_index    *)
(* request for city c ends with the city's safetyIndex equal to what       *)
(* calculate_city_safety_index returns for c's data as it stands after the *)
(* request's own writes.                                                   *)
C17_CacheFreshAfterRequest ==
    (resp.op \in {"create_safety_report", "verify_safety_report",
                  "get_city_safety_index"}
        /\ resp.status = 200)
        => cities[resp.city].safetyIndex =
               calculate_city_safety_index(reports, resp.city, now,
                                           resp.fail).ret

C17_Witness ==
    /\ resp.op = "verify_safety_report"
    /\ resp.status = 200
    /\ resp.fail = "none"
    /\ \E i \in DOMAIN reports :
           /\ reports[i].cityId = resp.city
           /\ reports[i].isVerified
           /\ cities[resp.city].safetyIndex #
                  calculate_city_safety_index(
                      [reports EXCEPT ![i].isVerified = FALSE], resp.city,
                      now, "none").ret
    /\ cities[resp.city].safetyIndex =
           calculate_city_safety_index(reports, resp.city, now, "none").ret

-----------------------------------------------------------------------------
(* Claims about what the reports' places and verification flags do,        *)
(* checked under SpecHeatmap.                                              *)

IsHeatmap == resp.op = "get_safety_heatmap" /\ resp.status = 200

(* The nearest multiple of g, a tie going to the even multiple.            *)
ClaimSnap(coord, g) ==
    LET lo == (coord \div g) * g
        d  == coord - lo
    IN  IF 2 * d < g THEN lo
        ELSE IF 2 * d > g THEN lo + g
        ELSE IF (lo \div g) % 2 = 0 THEN lo ELSE lo + g

ClaimHeatmapRows ==
    {i \in DOMAIN reports :
        /\ reports[i].cityId = resp.city
        /\ reports[i].isVerified
        /\ reports[i].reportedAt >= now - 30 * 24}

ClaimCellOf(i) ==
    <<ClaimSnap(reports[i].latitude, resp.grid_size),
      ClaimSnap(reports[i].longitude, resp.grid_size)>>

(* C15: the heatmap snaps each report coordinate to                        *)
(* round(coord / grid_size) * grid_size and puts two reports in the same   *)
(* cell exactly when both snapped coordinates are equal: the cells are the *)
(* distinct snapped pairs and each cell counts the reports snapping to it. *)
C15_HeatmapSnapsToGrid ==
    IsHeatmap =>
        /\ {<<cell.latitude, cell.longitude>> : cell \in resp.heatmap_data}
               = {ClaimCellOf(i) : i \in ClaimHeatmapRows}
        /\ \A cell \in resp.heatmap_data :
               cell.report_count =
                   Cardinality({i \in ClaimHeatmapRows :
                       ClaimCellOf(i) = <<cell.latitude, cell.longitude>>})
        /\ Cardinality(resp.heatmap_data)
               = Cardinality({ClaimCellOf(i) : i \in ClaimHeatmapRows})

(* Reports at (1.0001, 1.0001) and (1.0049, 1.0049) with grid_size 0.01 in *)
(* the single cell (1.00, 1.00).                                           *)
C15_Witness ==
    /\ IsHeatmap
    /\ resp.grid_size = 100
    /\ Len(reports) = 2
    /\ {<<reports[i].latitude, reports[i].longitude>> : i \in DOMAIN reports}
           = {<<10001, 10001>>, <<10049, 10049>>}
    /\ \A i \in DOMAIN reports : reports[i].isVerified
    /\ \E cell \in resp.heatmap_data :
           /\ resp.heatmap_data = {cell}
           /\ cell.latitude = 10000
           /\ cell.longitude = 10000
           /\ cell.report_count = 2

ClaimVerifiedOnly(rs) == SelectSeq(rs, LAMBDA r : r.isVerified)

(* C18: only verified reports influence a score: the city index, the area  *)
(* index and every heatmap cell are what they are for the table with the   *)
(* unverified reports removed, so two tables differing only in unverified  *)
(* reports give identical results.                                         *)
C18_OnlyVerifiedReportsCount ==
    /\ call.fn = "calculate_city_safety_index"
           => call.out = calculate_city_safety_index(
                             ClaimVerifiedOnly(reports), call.target,
                             call.at, call.fail)
    /\ call.fn = "calculate_area_safety_index"
           => call.out = calculate_area_safety_index(
                             ClaimVerifiedOnly(reports), call.target.latitude,
                             call.target.longitude, call.target.radius_km,
                             call.at, call.fail)
    /\ IsHeatmap
           => resp.heatmap_data =
                  heatmap_data(heatmap_reports(ClaimVerifiedOnly(reports),
                                               resp.city, DefaultDays, now),
                               resp.grid_size, now)

C18_Witness ==
    /\ call.fn = "calculate_city_safety_index"
    /\ call.fail = "none"
    /\ Len(reports) = 2
    /\ \E i, j \in DOMAIN reports :
           /\ reports[i].cityId = call.target
           /\ reports[j].cityId = call.target
           /\ reports[i].isVerified
           /\ ~reports[j].isVerified
           /\ reports[j].severity = 10
    /\ call.out.total_reports = 1

-----------------------------------------------------------------------------
(* Claims about requests handled at the same time, checked under SpecRace. *)

(* C16: concurrent recomputation for one city is not synchronized and the  *)
(* last writer wins: each request stores the index of the report table it  *)
(* read, whatever has been written since, so that an interleaving of two   *)
(* verify requests leaves in safetyIndex the index of an earlier table     *)
(* instead of the index of the final one (C16_Witness).                    *)
C16_LastWriterWins ==
    [][\A w \in Workers :
          (inflight[w].pc = "store" /\ inflight'[w].pc = "done")
              => cities'[inflight[w].city].safetyIndex =
                     calculate_city_safety_index(inflight[w].seen,
                         inflight[w].city, now, "none").ret]_vars

C16_Witness ==
    /\ \A w \in Workers :
           /\ inflight[w].pc = "done"
           /\ inflight[w].op = "verify_safety_report"
           /\ inflight[w].status = 200
           /\ inflight[w].city = "c1"
    /\ cities["c1"].safetyIndex #
           calculate_city_safety_index(reports, "c1", now, "none").ret
    /\ \E w \in Workers :
           /\ inflight[w].seen # reports
           /\ cities["c1"].safetyIndex =
                  calculate_city_safety_index(inflight[w].seen, "c1", now,
                                              "none").ret

-----------------------------------------------------------------------------
(* Claims about the inline article analysis, the news adjustment and the   *)
(* range of the default-weight score, checked under SpecCalc.              *)

ClaimThreatTable(t) ==
    IF t = 1 THEN Rat(12, 10)
    ELSE IF t = 2 THEN Rat(11, 10)
    ELSE IF t <= 6 THEN RInt(1)
    ELSE IF t = 7 THEN Rat(9, 10)
    ELSE IF t = 8 THEN Rat(8, 10)
    ELSE IF t = 9 THEN Rat(7, 10)
    ELSE Rat(6, 10)

ClaimBase(c) ==
    RAdd(RAdd(RMul(calculate_reports_factor(c.reports, c.utcnow),
                   Rat(32, 100)),
              RMul(calculate_time_factor(c.utcnow % 24), Rat(24, 100))),
         RMul(calculate_density_factor(c.active), Rat(24, 100)))

(* C23 as the spec states it: before clamping, the index is                *)
(* base * news_factor when |news_factor - 1| <= 0.1, the values 0.9 and    *)
(* 1.1 themselves included, and base * news_factor +                       *)
(* (news_factor - 1) * 0.2 when |news_factor - 1| > 0.1, in the city and   *)
(* in the area composer alike.                                             *)
C23_NudgeOnlyBeyondTenth ==
    IsIndexCall =>
        LET nf == call.news_factor
            scaled == RMul(ClaimBase(call), nf)
        IN  call.raw =
                IF RLt(Rat(1, 10), RAbs(RSub(nf, RInt(1))))
                THEN RAdd(scaled, RMul(RSub(nf, RInt(1)), Rat(2, 10)))
                ELSE scaled

(* C26: with the default weights and news_factor = 1.0 every city score    *)
(* lies in [2.4, 8.0]; its safety level is never 'High Risk' and is        *)
(* 'Very Safe' only for the score 8.0.                                     *)
C26_DefaultScoreBand ==
    (call.fn = "city_index" /\ call.news_factor = RInt(1)) =>
        /\ 240 <= call.ret /\ call.ret <= 800
        /\ call.level # "High Risk"
        /\ call.level = "Very Safe" => call.ret = 800

C26_Witness ==
    /\ call.fn = "city_index"
    /\ call.news_factor = RInt(1)
    /\ call.ret = 800
    /\ call.level = "Very Safe"

(* C27: the other factors being fixed, the final city score does not       *)
(* decrease when news_factor grows within [0.3, 1.5], the thresholds 0.9   *)
(* and 1.1 of the extra adjustment included.                               *)
C27_MonotoneInNewsFactor ==
    call.fn = "city_index" =>
        \A nf \in NewsFactors :
            LET other == city_safety_index(call.reports, call.active,
                                           call.utcnow, nf)
            IN  /\ RLe(call.news_factor, nf) => call.ret <= other
                /\ RLe(nf, call.news_factor) => other <= call.ret

C27_Witness ==
    /\ call.fn = "city_index"
    /\ call.news_factor = Rat(11, 10)
    /\ call.ret > city_safety_index(call.reports, call.active, call.utcnow,
                                    Rat(109, 100))
    /\ call.ret < city_safety_index(call.reports, call.active, call.utcnow,
                                    Rat(111, 100))

-----------------------------------------------------------------------------
(* Claims about the two sources of an article's contribution, checked      *)
(* under SpecNews.                                                         *)

ClaimActiveImpacts(a) ==
    {i \in impacts : i.newsArticleId = a.id /\ i.isActive}

RECURSIVE ClaimImpactSum(_)
ClaimImpactSum(is) ==
    IF is = {} THEN RInt(0)
    ELSE LET i == CHOOSE x \in is : TRUE
             weight == RMul(i.weightFactor, i.decayFactor)
         IN  RAdd(ClaimImpactSum(is \ {i}), RMul(i.impactFactor, weight))

RECURSIVE ClaimImpactWeightSum(_)
ClaimImpactWeightSum(is) ==
    IF is = {} THEN RInt(0)
    ELSE LET i == CHOOSE x \in is : TRUE
         IN  RAdd(ClaimImpactWeightSum(is \ {i}),
                  RMul(i.weightFactor, i.decayFactor))

ClaimInlineFactor(a) ==
    RAdd(ClaimThreatTable(a.threatLevel[1]),
         RMul(a.sentimentPolarity, Rat(5, 100)))

ClaimInlineWeight(a, utcnow) ==
    LET days_old == (utcnow - a.processedAt) \div 24
    IN  RMul(a.confidence,
             IF RLt(Rat(7 - days_old, 7), Rat(1, 10))
             THEN Rat(1, 10) ELSE Rat(7 - days_old, 7))

(* <<sum of value * weight, sum of weight>> over the articles: the active  *)
(* impacts alone where an article has any, its inline analysis otherwise.  *)
RECURSIVE ClaimSourceSums(_, _)
ClaimSourceSums(as, utcnow) ==
    IF as = {} THEN <<RInt(0), RInt(0)>>
    ELSE LET a == CHOOSE x \in as : TRUE
             rest == ClaimSourceSums(as \ {a}, utcnow)
             active == ClaimActiveImpacts(a)
         IN  IF active # {}
             THEN <<RAdd(rest[1], ClaimImpactSum(active)),
                    RAdd(rest[2], ClaimImpactWeightSum(active))>>
             ELSE <<RAdd(rest[1], RMul(ClaimInlineFactor(a),
                                       ClaimInlineWeight(a, utcnow))),
                    RAdd(rest[2], ClaimInlineWeight(a, utcnow))>>

(* C21: for an article with at least one active NewsSafetyImpact only its  *)
(* impacts enter the average, each with weight weightFactor * decayFactor  *)
(* and value impactFactor; the article's own threat level, sentiment and   *)
(* confidence do not change the result; the inline derivation is used only *)
(* for an article with no active impact.                                   *)
C21_ImpactsReplaceInlineAnalysis ==
    (IsNewsCall /\ call.fail = "none" /\ call.used # {}
        /\ \A a \in NewsCallRelevant :
               ClaimActiveImpacts(a) = {} => a.threatLevel # None)
        => LET sums == ClaimSourceSums(NewsCallRelevant, call.utcnow)
           IN  call.ret =
                   IF RLt(RInt(0), sums[2])
                   THEN RMax(Rat(3, 10),
                             RMin(Rat(15, 10), RDiv(sums[1], sums[2])))
                   ELSE RInt(1)

C21_Witness ==
    /\ IsNewsCall
    /\ call.fail = "none"
    /\ Cardinality(NewsCallRelevant) = 2
    /\ \E a \in NewsCallRelevant :
           /\ a.threatLevel = None
           /\ ClaimActiveImpacts(a) # {}
    /\ \E a \in NewsCallRelevant :
           /\ a.threatLevel = Some(9)
           /\ ClaimActiveImpacts(a) = {}
    /\ call.ret = Rat(53, 60)

-----------------------------------------------------------------------------
(* Claims about the heatmap cells and the is_active flag, checked under    *)
(* SpecHeatmap.                                                            *)

ClaimCellRows(cell) ==
    SelectSeq(reports, LAMBDA r :
        /\ r.cityId = resp.city
        /\ r.isVerified
        /\ r.reportedAt >= now - 30 * 24
        /\ ClaimSnap(r.latitude, resp.grid_size) = cell.latitude
        /\ ClaimSnap(r.longitude, resp.grid_size) = cell.longitude)

(* C24: the safety_score of each heatmap cell is calculate_reports_factor  *)
(* of the reports snapped to that cell, times 10, a value in [0, 10]; its  *)
(* report_count is the number of those reports; the cell carries no list   *)
(* of the reports themselves.                                              *)
C24_CellScoreFromItsReports ==
    IsHeatmap =>
        \A cell \in resp.heatmap_data :
            /\ cell.safety_score =
                   RMul(calculate_reports_factor(
                            reports_data(ClaimCellRows(cell)), now),
                        RInt(10))
            /\ RLe(RInt(0), cell.safety_score)
            /\ RLe(cell.safety_score, RInt(10))
            /\ cell.report_count = Len(ClaimCellRows(cell))
            /\ DOMAIN cell = {"latitude", "longitude", "safety_score",
                              "report_count"}

(* Two cells of one report each, with different scores.                   *)
C24_Witness ==
    /\ IsHeatmap
    /\ \E c1, c2 \in resp.heatmap_data :
           /\ c1.safety_score # c2.safety_score
           /\ c1.report_count = 1
           /\ c2.report_count = 1
           /\ RLt(RInt(0), c1.safety_score)

ClaimAllActive(rs) ==
    [i \in DOMAIN rs |-> [rs[i] EXCEPT !.isActive = TRUE]]

IsListing == resp.op = "get_safety_reports" /\ resp.status = 200

(* C28: the city index, the area index and the heatmap do not read         *)
(* is_active: a verified report inside the window contributes whether      *)
(* is_active is true or false; get_safety_reports lists only reports with  *)
(* is_active = true.                                                       *)
C28_OnlyListingReadsIsActive ==
    /\ call.fn = "calculate_city_safety_index"
           => /\ call.out = calculate_city_safety_index(
                                ClaimAllActive(reports), call.target,
                                call.at, call.fail)
              /\ ~call.out.raised =>
                     call.out.total_reports =
                         Cardinality({i \in DOMAIN reports :
                             /\ reports[i].cityId = call.target
                             /\ reports[i].isVerified
                             /\ reports[i].reportedAt >= call.at - 30 * 24})
    /\ call.fn = "calculate_area_safety_index"
           => call.out = calculate_area_safety_index(
                             ClaimAllActive(reports), call.target.latitude,
                             call.target.longitude, call.target.radius_km,
                             call.at, call.fail)
    /\ IsHeatmap
           => \A i \in ClaimHeatmapRows :
                  \E cell \in resp.heatmap_data :
                      /\ <<cell.latitude, cell.longitude>> = ClaimCellOf(i)
                      /\ cell.report_count >= 1
    /\ IsListing
           => \A k \in DOMAIN resp.reports :
                  reports[resp.reports[k].id].isActive

C28_Witness ==
    /\ call.fn = "calculate_city_safety_index"
    /\ call.fail = "none"
    /\ Len(reports) = 1
    /\ reports[1].cityId = call.target
    /\ reports[1].isVerified
    /\ ~reports[1].isActive
    /\ call.out.total_reports = 1

RECURSIVE ClaimCountSum(_)
ClaimCountSum(cells) ==
    IF cells = {} THEN 0
    ELSE LET cell == CHOOSE x \in cells : TRUE
         IN  cell.report_count + ClaimCountSum(cells \ {cell})

(* C29: the heatmap cells partition the selected reports: every selected   *)
(* report is counted in exactly one cell, the report_count values add up   *)
(* to the number of selected reports, no cell has report_count 0, and      *)
(* total_cells is the number of distinct snapped coordinate pairs.         *)
C29_CellsPartitionReports ==
    IsHeatmap =>
        /\ \A i \in ClaimHeatmapRows :
               Cardinality({cell \in resp.heatmap_data :
                   <<cell.latitude, cell.longitude>> = ClaimCellOf(i)}) = 1
        /\ ClaimCountSum(resp.heatmap_data) = Cardinality(ClaimHeatmapRows)
        /\ \A cell \in resp.heatmap_data : cell.report_count >= 1
        /\ resp.total_cells =
               Cardinality({ClaimCellOf(i) : i \in ClaimHeatmapRows})

(* Two selected reports of equal snapped latitude in two cells.            *)
C29_Witness ==
    /\ IsHeatmap
    /\ Cardinality(ClaimHeatmapRows) = 2
    /\ resp.total_cells = 2
    /\ \A cell \in resp.heatmap_data :
           cell.report_count = 1 /\ cell.latitude = 10000

-----------------------------------------------------------------------------
(* Claims about who may verify a report, checked under Spec.               *)

(* The users holding the moderator role, as the spec names it; the         *)
(* reporter u1 is not one of them.                                         *)
ClaimModerators == {"mod"}

(* C25 as the spec states it: only a moderator can change a report's       *)
(* is_verified flag: a verify_safety_report request from an authenticated  *)
(* user who is not a moderator leaves the report's verification status and *)
(* the city's safety_index unchanged.                                      *)
C25_OnlyModeratorVerifies ==
    [][\A u \in UserIds \ ClaimModerators, id \in 1..(MaxReports + 1),
          verified \in BOOLEAN, fail \in RequestFailPoints :
           VerifySafetyReport(u, id, verified, fail)
               => /\ \A i \in DOMAIN reports :
                         reports'[i].isVerified = reports[i].isVerified
                  /\ \A c \in CityIds :
                         cities'[c].safetyIndex = cities[c].safetyIndex]_vars

-----------------------------------------------------------------------------
(* Claims about the quest requests, checked under SpecQuests.              *)

ClaimRank(progress) ==
    IF progress = None THEN 0
    ELSE IF progress[1].status = "started" THEN 1
    ELSE IF progress[1].status = "in_progress" THEN 2
    ELSE 3

ClaimCompleted(u, q) == ClaimRank(questprogress[<<u, q>>]) = 3

RECURSIVE ClaimRewardSum(_, _, _)
ClaimRewardSum(u, qs, field) ==
    IF qs = {} THEN 0
    ELSE LET q == CHOOSE x \in qs : TRUE
         IN  (IF ClaimCompleted(u, q) THEN quests[q][field] ELSE 0)
                 + ClaimRewardSum(u, qs \ {q}, field)

(* No user holds more XP or tokens than one reward for each quest the      *)
(* user has completed, and no quest counts more completions than the users *)
(* who have completed it.                                                  *)
ClaimRewardedOnce ==
    /\ \A u \in UserIds :
           /\ users[u].totalXP <= ClaimRewardSum(u, QuestIds, "xpReward")
           /\ tokens[u] <= ClaimRewardSum(u, QuestIds, "tokenReward")
    /\ \A q \in QuestIds :
           quests[q].currentCompletions
               <= Cardinality({u \in UserIds : ClaimCompleted(u, q)})

(* C30: over any sequence of start_quest and verify_location requests      *)
(* handled one at a time, the progress of each (user, quest) pair only     *)
(* moves started -> in_progress -> completed; completed is terminal: a     *)
(* later start_quest or verify_location for the pair is rejected and       *)
(* changes no state; the XP and token reward and the increment of the      *)
(* quest's currentCompletions are applied at most once per pair.           *)
C30_QuestProgressForwardOnce ==
    [][/\ \A pair \in DOMAIN questprogress :
              /\ ClaimRank(questprogress'[pair])
                     >= ClaimRank(questprogress[pair])
              /\ ClaimRank(questprogress[pair]) = 0
                     => ClaimRank(questprogress'[pair]) <= 1
              /\ ClaimRank(questprogress[pair]) = 3
                     => questprogress'[pair] = questprogress[pair]
       /\ (/\ resp = NoRequest
           /\ resp'.op \in {"start_quest", "verify_location"}
           /\ <<resp'.user, resp'.quest>> \in DOMAIN questprogress
           /\ ClaimCompleted(resp'.user, resp'.quest))
              => /\ resp'.status \in {400, 404}
                 /\ UNCHANGED <<quests, questprogress, users, tokens, proofs>>
       /\ \A u \in UserIds, q \in QuestIds :
              (\/ users'[u].totalXP # users[u].totalXP
               \/ tokens'[u] # tokens[u])
                  => \E done \in QuestIds :
                         /\ ~ClaimCompleted(u, done)
                         /\ ClaimRank(questprogress'[<<u, done>>]) = 3
                         /\ users'[u].totalXP
                                = users[u].totalXP + quests[done].xpReward
                         /\ tokens'[u] = tokens[u] + quests[done].tokenReward
       /\ ClaimRewardedOnce']_vars

(* The pair (u1, q2) completed by way of in_progress and rewarded once,    *)
(* and a further verify_location for it rejected.                          *)
C30_Witness ==
    /\ resp.op = "verify_location"
    /\ resp.user = "u1"
    /\ resp.quest = "q2"
    /\ resp.status = 400
    /\ questprogress[<<"u1", "q2">>] =
           Some([status |-> "completed", pointsVisited |-> <<"p2", "p1">>])
    /\ users["u1"].totalXP = 250
    /\ tokens["u1"] = 25
    /\ quests["q2"].currentCompletions = 1

=============================================================================
